---- MODULE Spec2Model ----
(***************************************************************************)
(* State-machine model of the Feishu lottery bot (src/lib/lottery-core.js  *)
(* and its storage adapters).  Strings of the source that are not ASCII    *)
(* are written as ASCII tags; the comment next to each tag quotes the      *)
(* source text.                                                            *)
(***************************************************************************)
EXTENDS Integers, Sequences, FiniteSets, TLC

VARIABLES
    call,     \* harness: the arguments of the pure function / retryAsync under test
    ret,      \* harness: what the function under test has produced so far
    store,    \* the storage behind `redis`: [kind, kv, rows]
    pc,       \* pc[r]: where pipeline run r is suspended
    params,   \* params[r]: the inbound event of run r
    ctx,      \* ctx[r]: the messageInfo / lotteryData object threaded through the stages
    acc,      \* acc[r]: the collector's closure variables (userIdSet and counters)
    feed,     \* feed[r]: what the chat platform listed for run r, and where its fetches failed
    result,   \* result[r]: the Result executeLottery returned
    trace,    \* trace[r]: the stage functions executeLottery has invoked, in order
    replies,  \* replies[r]: the replies run r has successfully sent
    hist      \* bookkeeping about past draws (not program state)

vars == <<call, ret, store, pc, params, ctx, acc, feed, result, trace, replies, hist>>

-----------------------------------------------------------------------------
(* Bounds of the model *)

MaxRuns == 2          \* pipeline runs (trigger events) in one behaviour
MaxItems == 5         \* reactions / messages a listing has at most
PageSize == 3         \* items the platform returns per page
MaxListLen == 3       \* longest participants / historyWinners list given to selectWinner
MaxDigits == 4        \* most digits of a create_time string (SpecSeconds)
RandomGrain == 6      \* Math.random() is one of 0/RandomGrain .. (RandomGrain-1)/RandomGrain
MaxRetriesArg == 4    \* largest maxRetries argument tried on retryAsync

(* Program constants *)

DefaultMaxRetries == 3     \* retryAsync's default maxRetries
DefaultRetryDelay == 1000  \* retryAsync's default retryDelay (ms)

Runs == 1..MaxRuns
Users == {"u1", "u2", "u3"}
Threads == {"om_A", "om_B"}
NoId == ""

-----------------------------------------------------------------------------
(* Result (Either) *)

NoValue == [none |-> TRUE]
NoError == ""

Ok(v) == [success |-> TRUE, value |-> v, error |-> NoError]
Err(e) == [success |-> FALSE, value |-> NoValue, error |-> e]
isOk(res) == res.success = TRUE
isErr(res) == res.success = FALSE

\* an exception that leaves a function instead of a Result
Throw(e) == [success |-> FALSE, value |-> NoValue, error |-> e, thrown |-> TRUE]
isThrown(res) == "thrown" \in DOMAIN res

(* Error messages of the source, as ASCII tags *)
MsgMissingParams == "MissingParams"              \* '缺少必要的参数'
MsgInvalidEvent == "InvalidMessageEvent"         \* '消息事件结构无效'
MsgNotMentioned == "NotMentioned"                \* '消息未@机器人'
MsgParseFailed == "ContentParseFailed"           \* '消息内容解析失败'
MsgNotTrigger == "NotTrigger"                    \* '消息不是抽奖触发关键词'
MsgNoRootId == "NoRootId"                        \* '没有根消息ID'
MsgNoRootMessage == "NoRootMessage"              \* '无法获取根消息信息'
MsgNoRootSender == "NoRootSender"                \* '无法获取根消息发布人'
MsgRootInfoFailed == "RootInfoFailed"            \* '获取根消息信息失败'
MsgPermissionDenied == "PermissionDenied"        \* '只有消息发布人才能触发抽奖'
MsgNoCreateTime == "NoCreateTime"                \* '无法获取消息创建时间'
MsgCreateTimeFailed == "CreateTimeFailed"        \* '获取消息创建时间失败'
MsgLikeFailed == "LikeCollectFailed"             \* '获取点赞信息失败'
MsgRangeFailed == "RangeCollectFailed"           \* '获取时间区间内消息失败'
MsgNoParticipants == "NoParticipants"            \* '没有参与抽奖的用户'
MsgAllWinnersExhausted == "AllWinnersExhausted"  \* '所有参与用户都已中过奖，无可抽奖用户'
MsgNotifyFailed == "NotifyFailed"                \* '发送中奖消息失败'
MsgRecordFailed == "RecordFailed"                \* '保存开奖记录失败'
MsgSuccess == "DrawSucceeded"                    \* '抽奖成功'

-----------------------------------------------------------------------------
(* Sequence helpers *)

Range(s) == {s[i] : i \in 1..Len(s)}
includes(s, x) == \E i \in 1..Len(s) : s[i] = x

\* Set.add on an insertion-ordered Set kept as a duplicate-free sequence
SetAdd(s, x) == IF includes(s, x) THEN s ELSE Append(s, x)

SeqsUpTo(S, n) == UNION {[1..k -> S] : k \in 0..n}

NoDup(s) == \A i, j \in 1..Len(s) : i # j => s[i] # s[j]

-----------------------------------------------------------------------------
(* retryAsync: one iteration of its for loop.  rs.i is the loop variable,   *)
(* res is what `await fn()` produced (Ok: returned, Err: threw).            *)

RetryStart ==
    [i |-> 0, lastError |-> NoError, st |-> "calling", value |-> NoValue,
     calls |-> 0, waits |-> <<>>]

retryAsyncKeepFirstError(rs, res, maxRetries, retryDelay) ==
    IF isOk(res)
    THEN [rs EXCEPT !.st = "returned", !.value = res.value, !.calls = @ + 1]
    ELSE [rs EXCEPT
            !.lastError = IF rs.calls = 0 THEN res.error ELSE @,
            !.calls = @ + 1,
            !.waits = IF rs.i < maxRetries - 1
                      THEN Append(@, retryDelay * (rs.i + 1)) ELSE @,
            !.i = @ + 1,
            !.st = IF rs.i + 1 < maxRetries THEN "calling" ELSE "thrown"]

retryAsyncFlatDelay(rs, res, maxRetries, retryDelay) ==
    IF isOk(res)
    THEN [rs EXCEPT !.st = "returned", !.value = res.value, !.calls = @ + 1]
    ELSE [rs EXCEPT
            !.lastError = res.error,
            !.calls = @ + 1,
            !.waits = Append(@, retryDelay),
            !.i = @ + 1,
            !.st = IF rs.i + 1 < maxRetries THEN "calling" ELSE "thrown"]

retryAsyncStep(rs, res, maxRetries, retryDelay) ==
    IF isOk(res)
    THEN [rs EXCEPT !.st = "returned", !.value = res.value, !.calls = @ + 1]
    ELSE [rs EXCEPT
            !.lastError = res.error,
            !.calls = @ + 1,
            !.waits = IF rs.i < maxRetries - 1
                      THEN Append(@, retryDelay * (rs.i + 1)) ELSE @,
            !.i = @ + 1,
            !.st = IF rs.i + 1 < maxRetries THEN "calling" ELSE "thrown"]

(* retryAsync with the default policy around a network call: outcomes[k]    *)
(* says whether the k-th request succeeds; v is what a successful one yields *)

NetError == "NetworkError"

\* fail..fail ok, or fail on every attempt
CallPlans ==
    {o \in SeqsUpTo({"ok", "fail"}, DefaultMaxRetries) :
        /\ Len(o) >= 1
        /\ \A k \in 1..(Len(o) - 1) : o[k] = "fail"
        /\ Len(o) < DefaultMaxRetries => o[Len(o)] = "ok"}

RECURSIVE retryLoop(_, _, _)
retryLoop(rs, outcomes, v) ==
    IF rs.st # "calling" THEN rs
    ELSE retryLoop(retryAsyncStep(rs,
                                  IF outcomes[rs.calls + 1] = "ok" THEN Ok(v) ELSE Err(NetError),
                                  DefaultMaxRetries, DefaultRetryDelay),
                   outcomes, v)

retryAsync(outcomes, v) == retryLoop(RetryStart, outcomes, v)

-----------------------------------------------------------------------------
(* selectWinner.  rnd / RandomGrain is the value Math.random() returned.    *)

availableParticipantsAll(participants, historyWinners) == participants

availableParticipants(participants, historyWinners) ==
    SelectSeq(participants, LAMBDA userId : ~includes(historyWinners, userId))

randomIndex(rnd, n) == (rnd * n) \div RandomGrain

selectWinnerNoFilter(participants, historyWinners, rnd) ==
    IF Len(participants) = 0
    THEN Err(MsgNoParticipants)
    ELSE Ok([winnerId |-> participants[randomIndex(rnd, Len(participants)) + 1],
             participantCount |-> Len(participants)])

selectWinnerCountAvailable(participants, historyWinners, rnd) ==
    IF Len(participants) = 0
    THEN Err(MsgNoParticipants)
    ELSE LET avail == availableParticipants(participants, historyWinners) IN
         IF Len(avail) = 0
         THEN Err(MsgAllWinnersExhausted)
         ELSE Ok([winnerId |-> avail[randomIndex(rnd, Len(avail)) + 1],
                  participantCount |-> Len(avail)])

selectWinnerAlwaysFirst(participants, historyWinners, rnd) ==
    IF Len(participants) = 0
    THEN Err(MsgNoParticipants)
    ELSE LET avail == availableParticipants(participants, historyWinners) IN
         IF Len(avail) = 0
         THEN Err(MsgAllWinnersExhausted)
         ELSE Ok([winnerId |-> avail[1], participantCount |-> Len(participants)])

selectWinner(participants, historyWinners, rnd) ==
    IF Len(participants) = 0
    THEN Err(MsgNoParticipants)
    ELSE LET avail == availableParticipants(participants, historyWinners) IN
         IF Len(avail) = 0
         THEN Err(MsgAllWinnersExhausted)
         ELSE Ok([winnerId |-> avail[randomIndex(rnd, Len(avail)) + 1],
                  participantCount |-> Len(participants)])

-----------------------------------------------------------------------------
(* What the chat platform lists.  A listing is a sequence of items; the      *)
(* iterator delivers it in pages of PageSize items, and an empty listing as  *)
(* one page without an items array.                                          *)

BotId == "cli_bot"
TriggerId(r) == <<"om_t1", "om_t2", "om_t3", "om_t4">>[r]
AnnounceId(r) == <<"om_w1", "om_w2", "om_w3", "om_w4">>[r]
OtherMessageId == "om_x"

RECURSIVE Chunk(_)
Chunk(items) ==
    IF Len(items) <= PageSize
    THEN << [hasItems |-> TRUE, items |-> items] >>
    ELSE << [hasItems |-> TRUE, items |-> SubSeq(items, 1, PageSize)] >>
         \o Chunk(SubSeq(items, PageSize + 1, Len(items)))

PagesOf(items) ==
    IF items = <<>> THEN << [hasItems |-> FALSE, items |-> <<>>] >> ELSE Chunk(items)

RECURSIVE Flatten(_)
Flatten(pages) ==
    IF pages = <<>> THEN <<>> ELSE Head(pages).items \o Flatten(Tail(pages))

Reaction(type, id) == [operator_type |-> type, operator_id |-> id]

ReactionItems ==
    {Reaction("user", u) : u \in Users \cup {NoId}} \cup {Reaction("app", BotId)}

Message(id, rootId, hasSender, senderType, senderId, deleted) ==
    [message_id |-> id, root_id |-> rootId,
     sender |-> [present |-> hasSender, sender_type |-> senderType, id |-> senderId],
     deleted |-> deleted]

\* The messages a window on thread t with trigger message m can hold: the root
\* message and the trigger (both by the publisher u1), a reply in a thread by
\* u2, chat messages by u2 and by u3, a bot's message, a deleted message by u3
\* and a message whose sender has no id.
MessageItems(t, m) ==
    { Message(t, NoId, TRUE, "user", "u1", FALSE),
      Message(m, t, TRUE, "user", "u1", FALSE),
      Message(OtherMessageId, t, TRUE, "user", "u2", FALSE),
      Message(OtherMessageId, NoId, TRUE, "user", "u2", FALSE),
      Message(OtherMessageId, NoId, TRUE, "user", "u3", FALSE),
      Message(OtherMessageId, NoId, TRUE, "app", BotId, FALSE),
      Message(OtherMessageId, NoId, TRUE, "user", "u3", TRUE),
      Message(OtherMessageId, NoId, TRUE, "user", NoId, FALSE) }

\* String.prototype.trim on the model's ids: the only id with white space is " "
trim(s) == IF s = " " THEN "" ELSE s

-----------------------------------------------------------------------------
\* The collectors' closure variables as declared (both collectors' in one record);
\* collectResult says whether the collector has returned Result.Ok or Result.Err
EmptyAccumulators ==
    [userIdSet |-> <<>>, pageCount |-> 0, reactionCount |-> 0,
     messageCount |-> 0, excludedCount |-> 0, replyMessageCount |-> 0,
     collectResult |-> "pending"]

-----------------------------------------------------------------------------
(* collectLikeUsers: the body of forEach, and of the for-await loop          *)

likeItemNoDedup(a, reaction) ==
    [a EXCEPT
        !.reactionCount = @ + 1,
        !.userIdSet = IF reaction.operator_type = "user" /\ reaction.operator_id # NoId
                      THEN Append(@, reaction.operator_id) ELSE @]

likeItem(a, reaction) ==
    [a EXCEPT
        !.reactionCount = @ + 1,
        !.userIdSet = IF reaction.operator_type = "user" /\ reaction.operator_id # NoId
                      THEN SetAdd(@, reaction.operator_id) ELSE @]

RECURSIVE likeItems(_, _)
likeItems(a, items) ==
    IF items = <<>> THEN a ELSE likeItems(likeItem(a, Head(items)), Tail(items))

likePage(a, page) ==
    LET a1 == [a EXCEPT !.pageCount = @ + 1] IN
    IF page.hasItems THEN likeItems(a1, page.items) ELSE a1

(* collectRangeUsers: the body of forEach, and of the for-await loop         *)

isReply(message) == message.root_id # NoId /\ trim(message.root_id) # ""

isHumanLive(message) ==
    /\ message.sender.present
    /\ message.sender.sender_type = "user"
    /\ message.sender.id # NoId
    /\ trim(message.sender.id) # ""
    /\ ~message.deleted

rangeItemKeepReplies(a, message, rootMessageId, triggerMessageId) ==
    LET a1 == [a EXCEPT !.messageCount = @ + 1] IN
    IF message.message_id = rootMessageId \/ message.message_id = triggerMessageId
    THEN [a1 EXCEPT !.excludedCount = @ + 1]
    ELSE IF isHumanLive(message)
    THEN [a1 EXCEPT !.userIdSet = SetAdd(@, message.sender.id)]
    ELSE a1

rangeItemKeepDeleted(a, message, rootMessageId, triggerMessageId) ==
    LET a1 == [a EXCEPT !.messageCount = @ + 1] IN
    IF message.message_id = rootMessageId \/ message.message_id = triggerMessageId
    THEN [a1 EXCEPT !.excludedCount = @ + 1]
    ELSE IF isReply(message)
    THEN [a1 EXCEPT !.replyMessageCount = @ + 1]
    ELSE IF message.sender.present /\ message.sender.sender_type = "user"
            /\ message.sender.id # NoId
    THEN [a1 EXCEPT !.userIdSet = SetAdd(@, message.sender.id)]
    ELSE a1

rangeItem(a, message, rootMessageId, triggerMessageId) ==
    LET a1 == [a EXCEPT !.messageCount = @ + 1] IN
    IF message.message_id = rootMessageId \/ message.message_id = triggerMessageId
    THEN [a1 EXCEPT !.excludedCount = @ + 1]
    ELSE IF isReply(message)
    THEN [a1 EXCEPT !.replyMessageCount = @ + 1]
    ELSE IF isHumanLive(message)
    THEN [a1 EXCEPT !.userIdSet = SetAdd(@, message.sender.id)]
    ELSE a1

RECURSIVE rangeItems(_, _, _, _)
rangeItems(a, items, rootMessageId, triggerMessageId) ==
    IF items = <<>> THEN a
    ELSE rangeItems(rangeItem(a, Head(items), rootMessageId, triggerMessageId),
                    Tail(items), rootMessageId, triggerMessageId)

rangePage(a, page, rootMessageId, triggerMessageId) ==
    LET a1 == [a EXCEPT !.pageCount = @ + 1] IN
    IF page.hasItems THEN rangeItems(a1, page.items, rootMessageId, triggerMessageId) ELSE a1

validMessageCount(a) == a.messageCount - a.excludedCount - a.replyMessageCount

-----------------------------------------------------------------------------
(* The collectors under retryAsync.  plan[k] = n says how many pages the    *)
(* k-th attempt takes through the loop body: n = Len(pages), it reads the    *)
(* whole listing; n < Len(pages), it throws when fetching page n + 1.  The   *)
(* accumulators are declared outside the retried closure, so each attempt    *)
(* continues from what the attempts before it left.                          *)

Plans(pages) ==
    {p \in SeqsUpTo(0..Len(pages), DefaultMaxRetries) :
        /\ Len(p) >= 1
        /\ \A k \in 1..(Len(p) - 1) : p[k] < Len(pages)
        /\ Len(p) < DefaultMaxRetries => p[Len(p)] = Len(pages)}

RECURSIVE likePages(_, _)
likePages(a, pages) ==
    IF pages = <<>> THEN a ELSE likePages(likePage(a, Head(pages)), Tail(pages))

RECURSIVE likeAttempts(_, _, _, _)
likeAttempts(rs, a, pages, plan) ==
    IF rs.st # "calling" THEN [rs |-> rs, a |-> a]
    ELSE LET n == plan[rs.calls + 1] IN
         IF n = Len(pages)
         THEN likeAttempts(retryAsyncStep(rs, Ok(NoValue), DefaultMaxRetries, DefaultRetryDelay),
                           likePages(a, pages), pages, plan)
         ELSE likeAttempts(retryAsyncStep(rs, Err(NetError), DefaultMaxRetries, DefaultRetryDelay),
                           likePages(a, SubSeq(pages, 1, n)), pages, plan)

collectLikeUsers(pages, plan) ==
    LET run == likeAttempts(RetryStart, EmptyAccumulators, pages, plan) IN
    IF run.rs.st = "returned"
    THEN [run.a EXCEPT !.collectResult = "ok"]
    ELSE [run.a EXCEPT !.collectResult = "err"]

RECURSIVE rangePages(_, _, _, _)
rangePages(a, pages, rootMessageId, triggerMessageId) ==
    IF pages = <<>> THEN a
    ELSE rangePages(rangePage(a, Head(pages), rootMessageId, triggerMessageId),
                    Tail(pages), rootMessageId, triggerMessageId)

RECURSIVE rangeAttempts(_, _, _, _, _, _)
rangeAttempts(rs, a, pages, plan, rootMessageId, triggerMessageId) ==
    IF rs.st # "calling" THEN [rs |-> rs, a |-> a]
    ELSE LET n == plan[rs.calls + 1] IN
         IF n = Len(pages)
         THEN rangeAttempts(retryAsyncStep(rs, Ok(NoValue), DefaultMaxRetries, DefaultRetryDelay),
                            rangePages(a, pages, rootMessageId, triggerMessageId),
                            pages, plan, rootMessageId, triggerMessageId)
         ELSE rangeAttempts(retryAsyncStep(rs, Err(NetError), DefaultMaxRetries, DefaultRetryDelay),
                            rangePages(a, SubSeq(pages, 1, n), rootMessageId, triggerMessageId),
                            pages, plan, rootMessageId, triggerMessageId)

collectRangeUsers(pages, plan, rootMessageId, triggerMessageId) ==
    LET run == rangeAttempts(RetryStart, EmptyAccumulators, pages, plan,
                             rootMessageId, triggerMessageId) IN
    IF run.rs.st = "returned"
    THEN [run.a EXCEPT !.collectResult = "ok"]
    ELSE [run.a EXCEPT !.collectResult = "err"]

-----------------------------------------------------------------------------
(* The pipeline's variables before any event has arrived *)

NoContent == [json |-> FALSE, text |-> <<>>]

\* kind: "empty" (null, {} or []), "nonobject" (a string or a number),
\* "nomessage" (an object without event.message and event.event.message) or
\* "message"; shape: "new" ({event: {message, sender}}) or "old"
\* ({event: {event: {message, sender}}}); hasSender: the sender is there;
\* tenantKey, header_tenant_key, event_header_tenant_key: params.tenantKey,
\* params.header.tenant_key and params.event.header.tenant_key (NoId: absent)
NoParams ==
    [kind |-> "none", shape |-> "none", hasSender |-> FALSE,
     mentions |-> <<>>, content |-> NoContent, root_id |-> NoId,
     message_id |-> NoId, chat_id |-> NoId, sender |-> NoId, tenantKey |-> NoId,
     header_tenant_key |-> NoId, event_header_tenant_key |-> NoId,
     create_time |-> 0]

NoTimeStr == [defined |-> FALSE, minute |-> 0]

EmptyCtx ==
    [chatId |-> NoId, messageContent |-> NoContent, rootMessageId |-> NoId,
     messageId |-> NoId, senderId |-> NoId, tenantKey |-> NoId,
     text |-> <<>>, lotteryType |-> "none",
     historyWinners |-> <<>>, participants |-> <<>>, statisticCount |-> -1,
     startTime |-> -1, endTime |-> -1, startTimeStr |-> NoTimeStr, endTimeStr |-> NoTimeStr,
     rootSenderId |-> NoId, historySeenAt |-> -1,
     winnerId |-> NoId, participantCount |-> 0, lotteryMessageId |-> NoId]

NoFeed == [pages |-> <<>>, plan |-> <<>>]

NoFailure == [stage |-> "none", error |-> NoError]

NoResult == [returned |-> FALSE, res |-> Err(NoError), failed |-> NoFailure]

\* writes counts the completed set calls
EmptyStore(kind) ==
    [kind |-> kind, kv |-> [t \in Threads |-> <<>>], rows |-> <<>>, writes |-> 0,
     instances |-> [r \in Runs |-> [t \in Threads |-> <<>>]]]

\* What has happened so far: the winners of the draws completed on each thread,
\* those among them whose record could not be written, for each run the winners
\* completed on its thread when its event arrived, and whether its history lookup
\* failed
NoHist ==
    [finished |-> [t \in Threads |-> {}], unrecorded |-> [t \in Threads |-> {}],
     prior |-> [r \in Runs |-> {}], lookupFailed |-> [r \in Runs |-> FALSE]]

PipelineIdle ==
    /\ store = EmptyStore("kv")
    /\ pc = [r \in Runs |-> "idle"]
    /\ params = [r \in Runs |-> NoParams]
    /\ ctx = [r \in Runs |-> EmptyCtx]
    /\ acc = [r \in Runs |-> EmptyAccumulators]
    /\ feed = [r \in Runs |-> NoFeed]
    /\ result = [r \in Runs |-> NoResult]
    /\ trace = [r \in Runs |-> <<>>]
    /\ replies = [r \in Runs |-> <<>>]
    /\ hist = NoHist

pipelineVars == <<store, pc, params, ctx, acc, feed, result, trace, replies, hist>>

NoCall == [fn |-> "none"]
NoRet == [done |-> FALSE, out |-> NoValue]

-----------------------------------------------------------------------------
(* Event Normalizer (validateAndExtractMessage) *)

isValidParams(p) == p.kind \notin {"empty", "nonobject"}

isValidMessageEvent(p) == p.kind = "message"

\* "Cannot read properties of undefined (reading 'sender')"
TypeErrorSender == "TypeError: reading 'sender'"

\* line 681, params.event.sender || params.event.event.sender: when the first
\* operand is absent the second is evaluated, and a payload of the new shape has
\* no params.event.event to read the sender from
senderReadThrows(p) == p.shape = "new" /\ ~p.hasSender

\* a || b || c || ''
RECURSIVE firstTruthy(_)
firstTruthy(values) ==
    IF values = <<>> THEN NoId
    ELSE IF Head(values) # NoId THEN Head(values)
    ELSE firstTruthy(Tail(values))

validateAndExtractMessage(p) ==
    IF ~isValidParams(p) THEN Err(MsgMissingParams)
    ELSE IF ~isValidMessageEvent(p) THEN Err(MsgInvalidEvent)
    ELSE IF senderReadThrows(p) THEN Throw(TypeErrorSender)
    ELSE Ok([EmptyCtx EXCEPT !.chatId = p.chat_id,
                             !.messageContent = p.content,
                             !.rootMessageId = p.root_id,
                             !.messageId = p.message_id,
                             !.senderId = p.sender,
                             !.tenantKey = firstTruthy(<<p.tenantKey, p.header_tenant_key,
                                                         p.event_header_tenant_key>>)])

-----------------------------------------------------------------------------
(* Trigger and permission gate (validateMessageContent).  A text is a      *)
(* sequence of tokens: a mention placeholder, a blank, or a word.           *)

MentionTokens == {"@_user_1", "@_all"}
Blank == " "

isBotMentioned(p) ==
    \E i \in 1..Len(p.mentions) : p.mentions[i].key # NoId /\ p.mentions[i].id # NoId

RECURSIVE dropBlanks(_)
dropBlanks(text) ==
    IF text # <<>> /\ Head(text) = Blank THEN dropBlanks(Tail(text)) ELSE text

\* text.replace(/@_\w+\s*/g, '')
RECURSIVE stripMentions(_)
stripMentions(text) ==
    IF text = <<>> THEN <<>>
    ELSE IF Head(text) \in MentionTokens THEN stripMentions(dropBlanks(Tail(text)))
    ELSE <<Head(text)>> \o stripMentions(Tail(text))

RECURSIVE dropTrailingBlanks(_)
dropTrailingBlanks(text) ==
    IF text # <<>> /\ text[Len(text)] = Blank
    THEN dropTrailingBlanks(SubSeq(text, 1, Len(text) - 1)) ELSE text

trimText(text) == dropTrailingBlanks(dropBlanks(text))

parseMessageContent(content) ==
    IF ~content.json THEN Err(MsgParseFailed)
    ELSE Ok([text |-> trimText(stripMentions(content.text)), originalText |-> content.text])

likeLotteryKeywords == {<<"kaijiang">>, <<"choujiang">>}                     \* '开奖', '抽奖'
rangeLotteryKeywords == {<<"qujian", "kaijiang">>, <<"qujian", "choujiang">>} \* '区间开奖', '区间抽奖'

\* text.includes(keyword)
containsKeyword(text, keyword) ==
    \E i \in 1..Len(text) :
        i + Len(keyword) - 1 <= Len(text) /\ SubSeq(text, i, i + Len(keyword) - 1) = keyword

isLotteryTriggerByKeyword(text) ==
    IF \E k \in rangeLotteryKeywords : containsKeyword(text, k)
    THEN [isLottery |-> TRUE, type |-> "range"]
    ELSE IF \E k \in likeLotteryKeywords : containsKeyword(text, k)
    THEN [isLottery |-> TRUE, type |-> "like"]
    ELSE [isLottery |-> FALSE, type |-> "none"]

isLotteryTrigger(text) ==
    IF text \in likeLotteryKeywords THEN [isLottery |-> TRUE, type |-> "like"]
    ELSE IF text \in rangeLotteryKeywords THEN [isLottery |-> TRUE, type |-> "range"]
    ELSE [isLottery |-> FALSE, type |-> "none"]

gateChecksParseFirst(messageInfo, p) ==
    LET parseResult == parseMessageContent(messageInfo.messageContent) IN
    IF isErr(parseResult) THEN parseResult
    ELSE IF ~isBotMentioned(p) THEN Err(MsgNotMentioned)
    ELSE LET triggerResult == isLotteryTrigger(parseResult.value.text) IN
         IF messageInfo.rootMessageId = NoId THEN Err(MsgNoRootId)
         ELSE IF ~triggerResult.isLottery THEN Err(MsgNotTrigger)
         ELSE Ok([messageInfo EXCEPT !.text = parseResult.value.text,
                                     !.lotteryType = triggerResult.type])

gateChecksMentionOptional(messageInfo, p) ==
    LET parseResult == parseMessageContent(messageInfo.messageContent) IN
    IF isErr(parseResult) THEN parseResult
    ELSE LET triggerResult == isLotteryTrigger(parseResult.value.text) IN
         IF ~triggerResult.isLottery THEN Err(MsgNotTrigger)
         ELSE IF messageInfo.rootMessageId = NoId THEN Err(MsgNoRootId)
         ELSE Ok([messageInfo EXCEPT !.text = parseResult.value.text,
                                     !.lotteryType = triggerResult.type])

\* validateMessageContent up to its first await: Err, or Ok when the root
\* message's sender has to be fetched
gateChecks(messageInfo, p) ==
    IF ~isBotMentioned(p) THEN Err(MsgNotMentioned)
    ELSE LET parseResult == parseMessageContent(messageInfo.messageContent) IN
         IF isErr(parseResult) THEN parseResult
         ELSE LET triggerResult == isLotteryTrigger(parseResult.value.text) IN
              IF ~triggerResult.isLottery THEN Err(MsgNotTrigger)
              ELSE IF messageInfo.rootMessageId = NoId THEN Err(MsgNoRootId)
              ELSE Ok([messageInfo EXCEPT !.text = parseResult.value.text,
                                          !.lotteryType = triggerResult.type])

\* client.im.v1.message.get answers with the message or with no items
MessageGetAnswers(senderId, createTime) ==
    { [hasMessage |-> FALSE, senderId |-> NoId, hasCreateTime |-> FALSE, create_time |-> 0],
      [hasMessage |-> TRUE, senderId |-> NoId, hasCreateTime |-> FALSE, create_time |-> 0],
      [hasMessage |-> TRUE, senderId |-> senderId, hasCreateTime |-> TRUE,
       create_time |-> createTime] }

getRootMessageInfoUnknownSender(outcomes, answer) ==
    LET rs == retryAsync(outcomes, answer) IN
    IF rs.st = "thrown" THEN Ok(NoId)
    ELSE IF ~rs.value.hasMessage THEN Ok(NoId)
    ELSE Ok(rs.value.senderId)

getRootMessageInfo(outcomes, answer) ==
    LET rs == retryAsync(outcomes, answer) IN
    IF rs.st = "thrown" THEN Err(MsgRootInfoFailed)
    ELSE IF ~rs.value.hasMessage THEN Err(MsgNoRootMessage)
    ELSE IF rs.value.senderId = NoId THEN Err(MsgNoRootSender)
    ELSE Ok(rs.value.senderId)

getMessageCreateTime(outcomes, answer) ==
    LET rs == retryAsync(outcomes, answer) IN
    IF rs.st = "thrown" THEN Err(MsgCreateTimeFailed)
    ELSE IF ~(rs.value.hasMessage /\ rs.value.hasCreateTime) THEN Err(MsgNoCreateTime)
    ELSE Ok(rs.value.create_time)

permissionGrantedAlways(senderId, rootSenderId) == TRUE

permissionGranted(senderId, rootSenderId) == senderId = rootSenderId

-----------------------------------------------------------------------------
(* Storage: `redis` is a NeonStorage with getDrawsByRootMessageId (kind      *)
(* "neon": set inserts a row) or a get/set store (kind "kv": set replaces    *)
(* the value under the key)                                                  *)

StoreKinds == {"neon", "kv"}

\* createStorage() of the request handler, called once per request.  With a
\* database configured it returns a handle on the one database (kinds "neon"
\* and "kv"; the connection test is taken to succeed); without, kind "memory",
\* it returns `new InMemoryRedis()`, whose Map starts empty: instances[r] is the
\* Map of the instance made for request r
createStorage(st, r) ==
    IF st.kind = "memory"
    THEN [st EXCEPT !.instances[r] = [t \in Threads |-> <<>>]]
    ELSE st

\* dependencies.redis of request r: the database, or the request's own instance
redisOf(st, r) ==
    IF st.kind = "memory" THEN [st EXCEPT !.kind = "kv", !.kv = st.instances[r]] ELSE st

\* the storage after request r's redis.set left its handle as `saved`
afterSet(st, r, saved) ==
    IF st.kind = "memory"
    THEN [st EXCEPT !.instances[r] = saved.kv, !.writes = @ + 1]
    ELSE [saved EXCEPT !.writes = @ + 1]

getLotteryKeyOfAnyThread(rootMessageId) == <<"lottery:drawn:", "om_A">>

getLotteryKey(rootMessageId) == <<"lottery:drawn:", rootMessageId>>

\* key.replace('lottery:drawn:', '')
keyRoot(key) == key[2]

\* the row NeonStorage.set inserts (an absent field of the value is stored as
\* '' or 0, which is how the model writes an absent field already)
drawRow(rootMessageId, value) ==
    [root_message_id |-> rootMessageId,
     winner_id |-> value.winnerId,
     participant_count |-> value.participantCount,
     chat_id |-> value.chatId,
     sender_id |-> value.senderId,
     lottery_message_id |-> value.lotteryMessageId,
     tenant_key |-> value.tenantKey]

storeSetUpsert(st, key, value) ==
    IF st.kind = "neon"
    THEN [st EXCEPT !.rows =
             Append(SelectSeq(@, LAMBDA row : row.root_message_id # keyRoot(key)),
                    drawRow(keyRoot(key), value))]
    ELSE [st EXCEPT !.kv[keyRoot(key)] = <<value>>]

storeSet(st, key, value) ==
    IF st.kind = "neon"
    THEN [st EXCEPT !.rows = Append(@, drawRow(keyRoot(key), value))]
    ELSE [st EXCEPT !.kv[keyRoot(key)] = <<value>>]

storeGet(st, key) == st.kv[keyRoot(key)]

Reverse(s) == [i \in 1..Len(s) |-> s[Len(s) + 1 - i]]

getDrawsOfAnyThread(st, rootMessageId) == Reverse(st.rows)

\* ... WHERE root_message_id = ? ORDER BY created_at DESC
getDrawsByRootMessageId(st, rootMessageId) ==
    Reverse(SelectSeq(st.rows, LAMBDA row : row.root_message_id = rootMessageId))

\* the record of saveLotteryRecord, without its timestamp
drawRecordOfSender(winnerId, participantCount, chatId, senderId, lotteryMessageId, tenantKey) ==
    [winnerId |-> senderId, participantCount |-> participantCount,
     chatId |-> chatId, senderId |-> senderId,
     lotteryMessageId |-> lotteryMessageId, tenantKey |-> tenantKey]

drawRecord(winnerId, participantCount, chatId, senderId, lotteryMessageId, tenantKey) ==
    [winnerId |-> winnerId, participantCount |-> participantCount,
     chatId |-> chatId, senderId |-> senderId,
     lotteryMessageId |-> lotteryMessageId, tenantKey |-> tenantKey]

saveLotteryRecordTwice(st, rootMessageId, winnerId, participantCount, chatId, senderId, lotteryMessageId, tenantKey) ==
    LET value == drawRecord(winnerId, participantCount, chatId, senderId, lotteryMessageId,
                            tenantKey)
    IN  storeSet(storeSet(st, getLotteryKey(rootMessageId), value),
                 getLotteryKey(rootMessageId), value)

saveLotteryRecord(st, rootMessageId, winnerId, participantCount, chatId, senderId, lotteryMessageId, tenantKey) ==
    storeSet(st, getLotteryKey(rootMessageId),
             drawRecord(winnerId, participantCount, chatId, senderId, lotteryMessageId,
                        tenantKey))

getHistoryWinnersLatestOnly(st, rootMessageId, storeWorks) ==
    IF ~storeWorks THEN <<>>
    ELSE IF st.kind = "neon"
    THEN LET records == getDrawsByRootMessageId(st, rootMessageId) IN
         IF records = <<>> THEN <<>> ELSE <<records[1].winner_id>>
    ELSE LET record == storeGet(st, getLotteryKey(rootMessageId)) IN
         IF record # <<>> THEN <<record[1].winnerId>> ELSE <<>>

getHistoryWinnersIgnoreFault(st, rootMessageId, storeWorks) ==
    IF st.kind = "neon"
    THEN LET records == getDrawsByRootMessageId(st, rootMessageId) IN
         [i \in 1..Len(records) |-> records[i].winner_id]
    ELSE LET record == storeGet(st, getLotteryKey(rootMessageId)) IN
         IF record # <<>> THEN <<record[1].winnerId>> ELSE <<>>

\* storeWorks = FALSE: the query throws (caught: the history is [])
getHistoryWinners(st, rootMessageId, storeWorks) ==
    IF ~storeWorks THEN <<>>
    ELSE IF st.kind = "neon"
    THEN LET records == getDrawsByRootMessageId(st, rootMessageId)
             winnerIds == [i \in 1..Len(records) |-> records[i].winner_id]
         IN  SelectSeq(winnerIds, LAMBDA id : id # NoId)
    ELSE LET record == storeGet(st, getLotteryKey(rootMessageId)) IN
         IF record # <<>> THEN <<record[1].winnerId>> ELSE <<>>

-----------------------------------------------------------------------------
(* Cards *)

\* the card of sendPermissionDeniedMessage ('只有消息发布人才能触发抽奖')
PermissionDeniedCard == [msg_type |-> "interactive", kind |-> "denied", mention |-> NoId, info |-> <<>>]

buildWinnerMessageWindowAlways(winnerId, participantCount, options) ==
    [msg_type |-> "interactive", kind |-> "winner", mention |-> winnerId,
     info |-> << [label |-> "Participants", value |-> participantCount],
                 [label |-> IF options.lotteryType = "like" THEN "Reactions" ELSE "Messages",
                  value |-> options.statisticCount],
                 [label |-> "Time Range",
                  value |-> <<options.startTimeStr.minute, options.endTimeStr.minute>>] >>]

\* the lines of participantInfo: the turnout, then the statistic of the mode,
\* then the window of a range draw
buildWinnerMessage(winnerId, participantCount, options) ==
    LET statLine ==
            IF options.lotteryType = "like" /\ options.statisticCount # -1
            THEN << [label |-> "Reactions", value |-> options.statisticCount] >>
            ELSE IF options.lotteryType = "range" /\ options.statisticCount # -1
            THEN << [label |-> "Messages", value |-> options.statisticCount] >>
            ELSE <<>>
        timeLine ==
            IF options.lotteryType = "range" /\ options.startTimeStr.defined
                                             /\ options.endTimeStr.defined
            THEN << [label |-> "Time Range",
                     value |-> <<options.startTimeStr.minute, options.endTimeStr.minute>>] >>
            ELSE <<>>
    IN  [msg_type |-> "interactive", kind |-> "winner", mention |-> winnerId,
         info |-> << [label |-> "Participants", value |-> participantCount] >>
                  \o statLine \o timeLine]

\* client.im.v1.message.reply({path: {message_id: messageId}, data: messageData}):
\* the reply as it appears under the message it was sent to
sendReplyMessage(messageId, messageData) ==
    [message_id |-> messageId, msg_type |-> messageData.msg_type, kind |-> messageData.kind,
     mention |-> messageData.mention, info |-> messageData.info]

\* client.im.v1.message.reply answers with the id of the sent message, or without
ReplyAnswers(r) == { [message_id |-> AnnounceId(r)], [message_id |-> NoId] }

-----------------------------------------------------------------------------
(* The events and the chat the pipeline runs on *)

BotMention == [key |-> "@_user_1", id |-> "ou_bot"]
ChatId == "oc_chat"
TenantKey == "tenant_1"

TextLike == <<"@_user_1", Blank, "kaijiang">>
TextRange == <<"@_user_1", Blank, "qujian", "kaijiang">>
TextChat == <<"@_user_1", Blank, "kuai", "kaijiang", "le">>

\* message.create_time, in milliseconds
RootCreateTimes == {61500}
TriggerCreateTimes == {185999}

\* every thread's root message was published by u1
RootSender(t) == "u1"

MessageEvent(r, mentions, text, root, sender, time) ==
    [kind |-> "message", shape |-> "new", hasSender |-> TRUE, mentions |-> mentions,
     content |-> [json |-> TRUE, text |-> text],
     root_id |-> root, message_id |-> TriggerId(r), chat_id |-> ChatId,
     sender |-> sender, tenantKey |-> TenantKey,
     header_tenant_key |-> NoId, event_header_tenant_key |-> NoId, create_time |-> time]

\* the publisher's draw requests (reaction mode on either thread, range mode on
\* om_A), another member's request, for each check before the root message
\* is fetched an event that fails it, and payloads of either shape that lack
\* the sender or the tenant key
Events(r) ==
    LET time == CHOOSE c \in TriggerCreateTimes : TRUE IN
    { MessageEvent(r, <<BotMention>>, TextLike, "om_A", "u1", time),
      MessageEvent(r, <<BotMention>>, TextLike, "om_B", "u1", time),
      MessageEvent(r, <<BotMention>>, TextRange, "om_A", "u1", time),
      MessageEvent(r, <<BotMention>>, TextLike, "om_A", "u2", time),
      [NoParams EXCEPT !.kind = "empty"],
      [NoParams EXCEPT !.kind = "nomessage"],
      MessageEvent(r, <<>>, TextLike, "om_A", "u1", time),
      [MessageEvent(r, <<BotMention>>, TextLike, "om_A", "u1", time)
          EXCEPT !.content = NoContent],
      MessageEvent(r, <<BotMention>>, TextChat, "om_A", "u1", time),
      MessageEvent(r, <<BotMention>>, TextLike, NoId, "u1", time),
      [NoParams EXCEPT !.kind = "nonobject"],
      [MessageEvent(r, <<BotMention>>, TextLike, "om_A", NoId, time)
          EXCEPT !.hasSender = FALSE],
      [MessageEvent(r, <<BotMention>>, TextLike, "om_A", NoId, time)
          EXCEPT !.shape = "old", !.hasSender = FALSE],
      [MessageEvent(r, <<BotMention>>, TextLike, "om_B", "u1", time)
          EXCEPT !.shape = "old", !.tenantKey = NoId] }

AllReactionListings == SeqsUpTo(ReactionItems, MaxItems)

AllMessageListings(t, m) == SeqsUpTo(MessageItems(t, m), MaxItems)

\* a listing with every way its reading can go under the retry policy
Feeds(items) == {[pages |-> PagesOf(items), plan |-> p] : p \in Plans(PagesOf(items))}

FirstTry(items) == [pages |-> PagesOf(items), plan |-> <<Len(PagesOf(items))>>]

NeverRead(items) == [pages |-> PagesOf(items), plan |-> [k \in 1..DefaultMaxRetries |-> 0]]

\* every attempt reads all pages but the last and fails on fetching the last
ReadPartly(items) ==
    [pages |-> PagesOf(items),
     plan |-> [k \in 1..DefaultMaxRetries |-> Len(PagesOf(items)) - 1]]

\* what the listings of a run of the pipeline hold, and how their reading goes
PipelineReactionFeeds ==
    { FirstTry(<<>>),
      FirstTry(<<Reaction("user", "u1")>>),
      FirstTry(<<Reaction("user", "u1"), Reaction("user", "u2")>>),
      NeverRead(<<Reaction("user", "u1")>>),
      ReadPartly(<<Reaction("user", "u1"), Reaction("user", "u2"),
                   Reaction("user", "u3"), Reaction("user", "u1")>>) }

PipelineMessageFeeds ==
    { FirstTry(<<>>),
      FirstTry(<<Message(OtherMessageId, NoId, TRUE, "user", "u2", FALSE)>>),
      FirstTry(<<Message(OtherMessageId, NoId, TRUE, "user", "u2", FALSE),
                 Message(OtherMessageId, NoId, TRUE, "user", "u3", FALSE)>>),
      NeverRead(<<Message(OtherMessageId, NoId, TRUE, "user", "u2", FALSE)>>),
      ReadPartly(<<Message(OtherMessageId, NoId, TRUE, "user", "u2", FALSE),
                   Message(OtherMessageId, NoId, TRUE, "user", "u3", FALSE),
                   Message(OtherMessageId, NoId, TRUE, "user", "u2", FALSE),
                   Message(OtherMessageId, NoId, TRUE, "user", "u3", FALSE)>>) }

-----------------------------------------------------------------------------
(* executeLottery, one action per stage; trace[r] lists the stages run r has *)
(* entered                                                                   *)

FinishNowhere(r, res, stage) ==
    /\ pc' = pc
    /\ result' = result

Finish(r, res, stage) ==
    /\ pc' = [pc EXCEPT ![r] = "done"]
    /\ result' = [result EXCEPT ![r] =
                     [returned |-> TRUE, res |-> res,
                      failed |-> [stage |-> stage, error |-> res.error]]]

\* an exception leaves executeLottery: lotteryDrawHandler's catch
Crash(r, thrown, stage) ==
    /\ pc' = [pc EXCEPT ![r] = "crashed"]
    /\ result' = [result EXCEPT ![r] =
                     [returned |-> FALSE, res |-> thrown,
                      failed |-> [stage |-> stage, error |-> thrown.error]]]

Continue(r, next) ==
    /\ pc' = [pc EXCEPT ![r] = next]
    /\ result' = result

formatTime(ms) == [defined |-> TRUE, minute |-> ms \div 60000]

toSecondsRounded(ms) == (ms + 500) \div 1000

toSeconds(ms) == ms \div 1000

\* parseInt of a string of decimal digits (a sequence of digits 0..9)
RECURSIVE parseInt(_)
parseInt(digits) ==
    IF Len(digits) = 1 THEN digits[1]
    ELSE 10 * parseInt(SubSeq(digits, 1, Len(digits) - 1)) + digits[Len(digits)]

\* Number.prototype.toString of a non-negative integer
RECURSIVE toString(_)
toString(n) == IF n < 10 THEN <<n>> ELSE Append(toString(n \div 10), n % 10)

\* startTime and endTime as getParticipants computes them from the two
\* create_time strings
rangeBounds(rootCreateTime, currentMessageTime) ==
    [startTime |-> toString(toSeconds(parseInt(rootCreateTime))),
     endTime |-> toString(toSeconds(parseInt(currentMessageTime)))]

\* lines 986-993: what executeLottery returns after the Recorder
executeLotteryReturnRecordError(recordResult, notifyData) ==
    IF isErr(recordResult) THEN recordResult
    ELSE Ok([winnerId |-> recordResult.value.winnerId,
             participantCount |-> recordResult.value.participantCount])

executeLotteryReturnFromRecordOnly(recordResult, notifyData) ==
    IF isOk(recordResult)
    THEN Ok([winnerId |-> recordResult.value.winnerId,
             participantCount |-> recordResult.value.participantCount])
    ELSE Ok([winnerId |-> NoId, participantCount |-> 0])

executeLotteryReturn(recordResult, notifyData) ==
    LET finalData == IF isOk(recordResult) THEN recordResult.value ELSE notifyData IN
    Ok([winnerId |-> finalData.winnerId, participantCount |-> finalData.participantCount])

\* '函数执行失败: ' + error.message
MsgFunctionFailed(errorMessage) == <<"FunctionFailed: ", errorMessage>>

lotteryDrawHandlerErrorCode(res) ==
    IF isThrown(res) \/ isErr(res)
    THEN [code |-> -1, message |-> MsgFunctionFailed(res.error),
          hasData |-> FALSE, data |-> NoValue]
    ELSE [code |-> 0, message |-> MsgSuccess, hasData |-> TRUE, data |-> res.value]

lotteryDrawHandler(res) ==
    IF isThrown(res)
    THEN [code |-> -1, message |-> MsgFunctionFailed(res.error),
          hasData |-> FALSE, data |-> NoValue]
    ELSE IF isErr(res)
    THEN [code |-> 0, message |-> res.error, hasData |-> FALSE, data |-> NoValue]
    ELSE [code |-> 0, message |-> MsgSuccess, hasData |-> TRUE, data |-> res.value]

\* every combination of mention, content, root id and sender, for the checks
\* of validateMessageContent
GateEvents(r) ==
    LET time == CHOOSE c \in TriggerCreateTimes : TRUE IN
    { [MessageEvent(r, mentions, text, root, sender, time) EXCEPT !.content = content] :
        mentions \in {<<>>, <<BotMention>>},
        text \in {TextLike},
        content \in {NoContent} \cup {[json |-> TRUE, text |-> t] :
                                          t \in {TextLike, TextRange, TextChat}},
        root \in {NoId, "om_A"},
        sender \in {"u1", "u2"} }

\* the events a run may receive: those of the pipeline specifications, or
\* those of SpecGate
EventsOf(r, domain) == IF domain = "gate" THEN GateEvents(r) ELSE Events(r)

\* An event arrives: validateAndExtractMessage, then validateMessageContent up
\* to the fetch of the root message.  Events arrive in the order of the runs.
TriggerOn(r, domain) ==
    /\ pc[r] = "idle"
    /\ r > 1 => pc[r - 1] # "idle"
    /\ \E p \in EventsOf(r, domain) :
        LET messageValidation == validateAndExtractMessage(p)
            gate == gateChecks(messageValidation.value, p)
        IN  /\ params' = [params EXCEPT ![r] = p]
            /\ hist' = [hist EXCEPT !.prior[r] =
                           IF p.root_id \in Threads THEN hist.finished[p.root_id] ELSE {}]
            /\ IF isThrown(messageValidation)
               THEN /\ Crash(r, messageValidation, "Normalize")
                    /\ trace' = [trace EXCEPT ![r] = <<"Normalize">>]
                    /\ ctx' = ctx
               ELSE IF isErr(messageValidation)
               THEN /\ Finish(r, messageValidation, "Normalize")
                    /\ trace' = [trace EXCEPT ![r] = <<"Normalize">>]
                    /\ ctx' = ctx
               ELSE IF isErr(gate)
               THEN /\ Finish(r, gate, "Gate")
                    /\ trace' = [trace EXCEPT ![r] = <<"Normalize", "Gate">>]
                    /\ ctx' = [ctx EXCEPT ![r] = messageValidation.value]
               ELSE /\ Continue(r, "gate")
                    /\ trace' = [trace EXCEPT ![r] = <<"Normalize", "Gate">>]
                    /\ ctx' = [ctx EXCEPT ![r] = gate.value]
    /\ store' = createStorage(store, r)
    /\ UNCHANGED <<call, ret, acc, feed, replies>>

Trigger(r) == TriggerOn(r, "pipeline")

\* validateMessageContent from the answer of getRootMessageInfo on
ResolveRootSender(r) ==
    /\ pc[r] = "gate"
    /\ \E outcomes \in CallPlans,
          answer \in MessageGetAnswers(RootSender(ctx[r].rootMessageId),
                                       CHOOSE c \in RootCreateTimes : TRUE) :
        LET rootSenderResult == getRootMessageInfo(outcomes, answer) IN
        IF isErr(rootSenderResult)
        THEN /\ Finish(r, rootSenderResult, "Gate")
             /\ ctx' = ctx
        ELSE /\ ctx' = [ctx EXCEPT ![r].rootSenderId = rootSenderResult.value]
             /\ IF permissionGranted(ctx[r].senderId, rootSenderResult.value)
                THEN Continue(r, "history")
                ELSE Continue(r, "notice")
    /\ UNCHANGED <<call, ret, store, params, acc, feed, trace, replies, hist>>

MsgNoticeFailed == "PermissionNoticeFailed"       \* '发送权限提示失败'

\* sendPermissionDeniedMessage from the return of retryAsync on
sendPermissionDeniedMessage(rs) ==
    IF rs.st = "thrown" THEN Err(MsgNoticeFailed) ELSE Ok(TRUE)

permissionDeniedResultOfNotice(noticeResult) ==
    IF isErr(noticeResult) THEN noticeResult ELSE Err(MsgPermissionDenied)

\* lines 743-744: the Result of the notice is not looked at
permissionDeniedResult(noticeResult) == Err(MsgPermissionDenied)

\* sendPermissionDeniedMessage, whose own failure is dropped, and the return
PermissionNotice(r) ==
    /\ pc[r] = "notice"
    /\ \E outcomes \in CallPlans :
        LET rs == retryAsync(outcomes, NoValue)
            noticeResult == sendPermissionDeniedMessage(rs)
        IN  /\ replies' = [replies EXCEPT ![r] =
                               IF rs.st = "returned"
                               THEN Append(@, sendReplyMessage(ctx[r].messageId,
                                                               PermissionDeniedCard))
                               ELSE @]
            /\ Finish(r, permissionDeniedResult(noticeResult), "Gate")
    /\ UNCHANGED <<call, ret, store, params, ctx, acc, feed, trace, hist>>

\* fetchHistoryWinners
HistoryLookup(r) ==
    /\ pc[r] = "history"
    /\ \E storeWorks \in BOOLEAN :
        /\ ctx' = [ctx EXCEPT
               ![r].historyWinners = getHistoryWinners(redisOf(store, r), ctx[r].rootMessageId,
                                                     storeWorks),
               ![r].historySeenAt = store.writes]
        /\ hist' = [hist EXCEPT !.lookupFailed[r] = ~storeWorks]
    /\ Continue(r, "collect")
    /\ trace' = [trace EXCEPT ![r] = Append(@, "History")]
    /\ UNCHANGED <<call, ret, store, params, acc, feed, replies>>

participantsResultKeepGathered(messageInfo, a, statisticCount, failure) ==
    IF Len(a.userIdSet) = 0
    THEN IF a.collectResult = "err" THEN Err(failure) ELSE Err(MsgNoParticipants)
    ELSE Ok([messageInfo EXCEPT !.participants = a.userIdSet,
                                !.statisticCount = statisticCount])

participantsResultAllowNone(messageInfo, a, statisticCount, failure) ==
    IF a.collectResult = "err" THEN Err(failure)
    ELSE Ok([messageInfo EXCEPT !.participants = a.userIdSet,
                                !.statisticCount = statisticCount])

\* getParticipants from the collector's return on
participantsResult(messageInfo, a, statisticCount, failure) ==
    IF a.collectResult = "err" THEN Err(failure)
    ELSE IF Len(a.userIdSet) = 0 THEN Err(MsgNoParticipants)
    ELSE Ok([messageInfo EXCEPT !.participants = a.userIdSet,
                                !.statisticCount = statisticCount])

\* getParticipants, lotteryType 'like'
GetParticipantsLike(r, feeds) ==
    /\ pc[r] = "collect"
    /\ ctx[r].lotteryType = "like"
    /\ \E f \in feeds :
        LET a == collectLikeUsers(f.pages, f.plan)
            participants == participantsResult(ctx[r], a, a.reactionCount, MsgLikeFailed)
        IN  /\ feed' = [feed EXCEPT ![r] = f]
            /\ acc' = [acc EXCEPT ![r] = a]
            /\ IF isErr(participants)
               THEN Finish(r, participants, "Collect") /\ ctx' = ctx
               ELSE Continue(r, "select") /\ ctx' = [ctx EXCEPT ![r] = participants.value]
    /\ trace' = [trace EXCEPT ![r] = Append(@, "Collect")]
    /\ UNCHANGED <<call, ret, store, params, replies, hist>>

\* getParticipants, lotteryType 'range'
GetParticipantsRange(r, feeds) ==
    /\ pc[r] = "collect"
    /\ ctx[r].lotteryType = "range"
    /\ \E outcomes \in CallPlans,
          answer \in MessageGetAnswers(RootSender(ctx[r].rootMessageId),
                                       CHOOSE c \in RootCreateTimes : TRUE) :
        LET rootTimeResult == getMessageCreateTime(outcomes, answer) IN
        IF isErr(rootTimeResult)
        THEN /\ Finish(r, rootTimeResult, "Collect")
             /\ UNCHANGED <<ctx, feed, acc>>
        ELSE \E f \in feeds :
                LET currentMessageTime == params[r].create_time
                    a == collectRangeUsers(f.pages, f.plan,
                                           ctx[r].rootMessageId, ctx[r].messageId)
                    messageInfo == [ctx[r] EXCEPT
                        !.startTime = toSeconds(rootTimeResult.value),
                        !.endTime = toSeconds(currentMessageTime),
                        !.startTimeStr = formatTime(rootTimeResult.value),
                        !.endTimeStr = formatTime(currentMessageTime)]
                    participants == participantsResult(messageInfo, a, validMessageCount(a),
                                                       MsgRangeFailed)
                IN  /\ feed' = [feed EXCEPT ![r] = f]
                    /\ acc' = [acc EXCEPT ![r] = a]
                    /\ IF isErr(participants)
                       THEN Finish(r, participants, "Collect") /\ ctx' = ctx
                       ELSE Continue(r, "select")
                            /\ ctx' = [ctx EXCEPT ![r] = participants.value]
    /\ trace' = [trace EXCEPT ![r] = Append(@, "Collect")]
    /\ UNCHANGED <<call, ret, store, params, replies, hist>>

\* drawWinner
DrawWinner(r) ==
    /\ pc[r] = "select"
    /\ \E rnd \in 0..(RandomGrain - 1) :
        LET winnerResult == selectWinner(ctx[r].participants, ctx[r].historyWinners, rnd) IN
        IF isErr(winnerResult)
        THEN Finish(r, winnerResult, "Select") /\ ctx' = ctx
        ELSE /\ Continue(r, "notify")
             /\ ctx' = [ctx EXCEPT ![r].winnerId = winnerResult.value.winnerId,
                                   ![r].participantCount = winnerResult.value.participantCount]
    /\ trace' = [trace EXCEPT ![r] = Append(@, "Select")]
    /\ UNCHANGED <<call, ret, store, params, acc, feed, replies, hist>>

\* notifyWinner from the return of retryAsync on: a send that failed on every
\* attempt is the Result's error, a send that went through adds the id of the
\* sent message (response?.data?.message_id || '')
notifyWinnerSwallowFailure(winnerData, rs) ==
    IF rs.st = "thrown" THEN Ok([winnerData EXCEPT !.lotteryMessageId = NoId])
    ELSE Ok([winnerData EXCEPT !.lotteryMessageId = rs.value.message_id])

notifyWinner(winnerData, rs) ==
    IF rs.st = "thrown" THEN Err(MsgNotifyFailed)
    ELSE Ok([winnerData EXCEPT !.lotteryMessageId = rs.value.message_id])

\* notifyWinner: the card goes out as a reply to the trigger message
NotifyWinner(r) ==
    /\ pc[r] = "notify"
    /\ \E outcomes \in CallPlans, answer \in ReplyAnswers(r) :
        LET messageData == buildWinnerMessage(ctx[r].winnerId, ctx[r].participantCount,
                               [lotteryType |-> ctx[r].lotteryType,
                                startTimeStr |-> ctx[r].startTimeStr,
                                endTimeStr |-> ctx[r].endTimeStr,
                                statisticCount |-> ctx[r].statisticCount])
            rs == retryAsync(outcomes, answer)
            notifyResult == notifyWinner(ctx[r], rs)
        IN  /\ replies' = [replies EXCEPT ![r] =
                               IF rs.st = "returned"
                               THEN Append(@, sendReplyMessage(ctx[r].messageId, messageData))
                               ELSE @]
            /\ IF isErr(notifyResult)
               THEN Finish(r, notifyResult, "Notify") /\ ctx' = ctx
               ELSE Continue(r, "record") /\ ctx' = [ctx EXCEPT ![r] = notifyResult.value]
    /\ trace' = [trace EXCEPT ![r] = Append(@, "Notify")]
    /\ UNCHANGED <<call, ret, store, params, acc, feed, hist>>

\* recordLottery and the return of executeLottery; setWorks = FALSE: redis.set throws
RecordLottery(r) ==
    /\ pc[r] = "record"
    /\ \E setWorks \in BOOLEAN :
        LET winnerData == ctx[r]
            t == winnerData.rootMessageId
            saved == saveLotteryRecord(redisOf(store, r), t, winnerData.winnerId,
                         winnerData.participantCount, winnerData.chatId, winnerData.senderId,
                         winnerData.lotteryMessageId, winnerData.tenantKey)
            recordResult == IF setWorks THEN Ok(winnerData) ELSE Err(MsgRecordFailed)
        IN  /\ store' = IF setWorks THEN afterSet(store, r, saved) ELSE store
            /\ pc' = [pc EXCEPT ![r] = "done"]
            /\ result' = [result EXCEPT ![r] =
                   [returned |-> TRUE,
                    res |-> executeLotteryReturn(recordResult, winnerData),
                    failed |-> IF setWorks THEN NoFailure
                               ELSE [stage |-> "Record", error |-> MsgRecordFailed]]]
            /\ hist' = [hist EXCEPT
                   !.finished[t] = @ \cup {winnerData.winnerId},
                   !.unrecorded[t] = IF setWorks THEN @ ELSE @ \cup {winnerData.winnerId}]
    /\ trace' = [trace EXCEPT ![r] = Append(@, "Record")]
    /\ UNCHANGED <<call, ret, params, ctx, acc, feed, replies>>

-----------------------------------------------------------------------------
(* Specification Spec: MaxRuns events handled by concurrent runs of the      *)
(* pipeline over one store, on which thread om_A has had no draw or two      *)
(* draws (won by u1, then by u2)                                             *)

PriorDraws == { <<>>, <<"u1", "u2">> }

RECURSIVE ReplayDraws(_, _)
ReplayDraws(st, winners) ==
    IF winners = <<>> THEN st
    ELSE ReplayDraws(
            [saveLotteryRecord(st, "om_A", Head(winners), Cardinality(Users), ChatId,
                               RootSender("om_A"), NoId, TenantKey)
                EXCEPT !.writes = @ + 1],
            Tail(winners))

Init ==
    /\ call = NoCall
    /\ ret = NoRet
    /\ \E kind \in StoreKinds, winners \in PriorDraws :
        /\ store = ReplayDraws(EmptyStore(kind), winners)
        /\ hist = [NoHist EXCEPT !.finished["om_A"] = Range(winners)]
    /\ pc = [r \in Runs |-> "idle"]
    /\ params = [r \in Runs |-> NoParams]
    /\ ctx = [r \in Runs |-> EmptyCtx]
    /\ acc = [r \in Runs |-> EmptyAccumulators]
    /\ feed = [r \in Runs |-> NoFeed]
    /\ result = [r \in Runs |-> NoResult]
    /\ trace = [r \in Runs |-> <<>>]
    /\ replies = [r \in Runs |-> <<>>]

Next ==
    \E r \in Runs :
        \/ Trigger(r)
        \/ ResolveRootSender(r)
        \/ PermissionNotice(r)
        \/ HistoryLookup(r)
        \/ GetParticipantsLike(r, PipelineReactionFeeds)
        \/ GetParticipantsRange(r, PipelineMessageFeeds)
        \/ DrawWinner(r)
        \/ NotifyWinner(r)
        \/ RecordLottery(r)

Spec == Init /\ [][Next]_vars

\* Specification SpecFallback: the same requests with no database configured
InitFallback ==
    /\ call = NoCall
    /\ ret = NoRet
    /\ store = EmptyStore("memory")
    /\ hist = NoHist
    /\ pc = [r \in Runs |-> "idle"]
    /\ params = [r \in Runs |-> NoParams]
    /\ ctx = [r \in Runs |-> EmptyCtx]
    /\ acc = [r \in Runs |-> EmptyAccumulators]
    /\ feed = [r \in Runs |-> NoFeed]
    /\ result = [r \in Runs |-> NoResult]
    /\ trace = [r \in Runs |-> <<>>]
    /\ replies = [r \in Runs |-> <<>>]

SpecFallback == InitFallback /\ [][Next]_vars

-----------------------------------------------------------------------------
(* Specification SpecLegacy: the legacy pipeline (reaction draws only, no    *)
(* history: a thread is drawn once) as served by POST /api/lottery/event    *)

MsgNoKeyword == "NoLotteryKeyword"              \* '消息不包含开奖关键词'
MsgAlreadyDrawn == "AlreadyDrawn"               \* '该消息已经开过奖了'

TextHello == <<"nihao">>

\* the request bodies: a trigger on either thread, a text holding the keyword, a
\* text without it, a message outside a thread, an unparsable content, and
\* bodies without a message
LegacyEvents(r) ==
    LET time == CHOOSE c \in TriggerCreateTimes : TRUE
        event(text, root) == [MessageEvent(r, <<>>, text, root, "u1", time)
                                 EXCEPT !.shape = "old"]
    IN  { event(<<"kaijiang">>, "om_A"),
          event(<<"kaijiang">>, "om_B"),
          event(TextChat, "om_A"),
          event(TextHello, "om_A"),
          event(<<"kaijiang">>, NoId),
          [event(<<"kaijiang">>, "om_A") EXCEPT !.content = NoContent],
          [NoParams EXCEPT !.kind = "nomessage"] }

\* what listWithIterator delivers for the root message
LegacyListings ==
    { <<>>,
      <<Reaction("user", "u1")>>,
      <<Reaction("user", "u1"), Reaction("app", BotId), Reaction("user", "u2"),
        Reaction("user", "u1")>> }

\* validateAndExtractMessage of the legacy pipeline
legacyValidateAndExtractMessage(p) ==
    IF ~isValidParams(p) THEN Err(MsgMissingParams)
    ELSE IF ~isValidMessageEvent(p) THEN Err(MsgInvalidEvent)
    ELSE Ok([EmptyCtx EXCEPT !.chatId = p.chat_id,
                             !.messageContent = p.content,
                             !.rootMessageId = p.root_id,
                             !.messageId = p.message_id])

\* text.includes('开奖')
hasLotteryKeyword(text) == containsKeyword(text, <<"kaijiang">>)

\* validateMessageContent of the legacy pipeline
legacyValidateMessageContent(messageInfo) ==
    IF ~messageInfo.messageContent.json THEN Err(MsgParseFailed)
    ELSE IF ~hasLotteryKeyword(messageInfo.messageContent.text) THEN Err(MsgNoKeyword)
    ELSE IF messageInfo.rootMessageId = NoId THEN Err(MsgNoRootId)
    ELSE Ok([messageInfo EXCEPT !.text = messageInfo.messageContent.text])

\* redis.get(key) != null
checkIfDrawn(st, rootMessageId) == storeGet(st, getLotteryKey(rootMessageId)) # <<>>

checkLotteryStatus(st, messageInfo) ==
    IF checkIfDrawn(st, messageInfo.rootMessageId) THEN Err(MsgAlreadyDrawn)
    ELSE Ok(messageInfo)

extractUserIds(items) == likeItems(EmptyAccumulators, items).userIdSet

selectRandomWinner(participants, rnd) ==
    IF Len(participants) = 0 THEN NoId
    ELSE participants[randomIndex(rnd, Len(participants)) + 1]

legacyBuildWinnerMessage(winnerId) ==
    [msg_type |-> "interactive", kind |-> "winner", mention |-> winnerId, info |-> <<>>]

legacySaveLotteryRecord(st, rootMessageId, winnerId, participantCount) ==
    storeSet(st, getLotteryKey(rootMessageId),
             [winnerId |-> winnerId, participantCount |-> participantCount])

\* The request arrives: the endpoint makes `new InMemoryRedis()` for it, then
\* steps 1 and 2 of executeLottery
LegacyReceive(r) ==
    /\ pc[r] = "idle"
    /\ r > 1 => pc[r - 1] # "idle"
    /\ \E p \in LegacyEvents(r) :
        LET messageValidation == legacyValidateAndExtractMessage(p)
            contentValidation == legacyValidateMessageContent(messageValidation.value)
        IN  /\ params' = [params EXCEPT ![r] = p]
            /\ hist' = [hist EXCEPT !.prior[r] =
                           IF p.root_id \in Threads THEN hist.finished[p.root_id] ELSE {}]
            /\ IF isErr(messageValidation)
               THEN Finish(r, messageValidation, "Normalize") /\ ctx' = ctx
               ELSE IF isErr(contentValidation)
               THEN /\ Finish(r, contentValidation, "Gate")
                    /\ ctx' = [ctx EXCEPT ![r] = messageValidation.value]
               ELSE /\ Continue(r, "status")
                    /\ ctx' = [ctx EXCEPT ![r] = contentValidation.value]
    /\ store' = createStorage(store, r)
    /\ trace' = [trace EXCEPT ![r] = <<"Normalize">>]
    /\ UNCHANGED <<call, ret, acc, feed, replies>>

\* step 3, checkLotteryStatus
LegacyCheckStatus(r) ==
    /\ pc[r] = "status"
    /\ LET statusCheck == checkLotteryStatus(redisOf(store, r), ctx[r]) IN
        IF isErr(statusCheck) THEN Finish(r, statusCheck, "Status") ELSE Continue(r, "collect")
    /\ trace' = [trace EXCEPT ![r] = Append(@, "Status")]
    /\ UNCHANGED <<call, ret, store, params, ctx, acc, feed, replies, hist>>

\* step 4, getParticipants; listed = FALSE: the iteration throws
LegacyGetParticipants(r) ==
    /\ pc[r] = "collect"
    /\ \E items \in LegacyListings, listed \in BOOLEAN :
        LET participants == extractUserIds(items) IN
        IF ~listed THEN Finish(r, Err(MsgLikeFailed), "Collect") /\ ctx' = ctx
        ELSE IF Len(participants) = 0
        THEN Finish(r, Err(MsgNoParticipants), "Collect") /\ ctx' = ctx
        ELSE Continue(r, "draw") /\ ctx' = [ctx EXCEPT ![r].participants = participants]
    /\ trace' = [trace EXCEPT ![r] = Append(@, "Collect")]
    /\ UNCHANGED <<call, ret, store, params, acc, feed, replies, hist>>

\* steps 5 and 6, drawWinner and notifyWinner (one reply, not retried)
LegacyDrawAndNotify(r) ==
    /\ pc[r] = "draw"
    /\ \E rnd \in 0..(RandomGrain - 1), sent \in BOOLEAN :
        LET winnerId == selectRandomWinner(ctx[r].participants, rnd) IN
        /\ ctx' = [ctx EXCEPT ![r].winnerId = winnerId,
                              ![r].participantCount = Len(ctx[r].participants)]
        /\ replies' = [replies EXCEPT ![r] =
               IF sent THEN Append(@, sendReplyMessage(ctx[r].messageId,
                                                       legacyBuildWinnerMessage(winnerId)))
               ELSE @]
        /\ IF sent THEN Continue(r, "save") ELSE Finish(r, Err(MsgNotifyFailed), "Notify")
    /\ trace' = [trace EXCEPT ![r] = Append(@, "Notify")]
    /\ UNCHANGED <<call, ret, store, params, acc, feed, hist>>

\* step 7, recordLottery, and the return of executeLottery
LegacyRecord(r) ==
    /\ pc[r] = "save"
    /\ \E setWorks \in BOOLEAN :
        LET t == ctx[r].rootMessageId
            saved == legacySaveLotteryRecord(redisOf(store, r), t, ctx[r].winnerId,
                                             Len(ctx[r].participants))
        IN  /\ store' = IF setWorks THEN afterSet(store, r, saved) ELSE store
            /\ IF setWorks
               THEN Finish(r, Ok([winnerId |-> ctx[r].winnerId,
                                  participantCount |-> Len(ctx[r].participants)]), "none")
               ELSE Finish(r, Err(MsgRecordFailed), "Record")
            /\ hist' = [hist EXCEPT
                   !.finished[t] = @ \cup {ctx[r].winnerId},
                   !.unrecorded[t] = IF setWorks THEN @ ELSE @ \cup {ctx[r].winnerId}]
    /\ trace' = [trace EXCEPT ![r] = Append(@, "Record")]
    /\ UNCHANGED <<call, ret, params, ctx, acc, feed, replies>>

NextLegacy ==
    \E r \in Runs :
        \/ LegacyReceive(r)
        \/ LegacyCheckStatus(r)
        \/ LegacyGetParticipants(r)
        \/ LegacyDrawAndNotify(r)
        \/ LegacyRecord(r)

SpecLegacy == InitFallback /\ [][NextLegacy]_vars

-----------------------------------------------------------------------------
(* Specification SpecIngress: the request handler of api/lottery-event.js   *)
(* for one im.message.receive_v1 request.  lotteryPromise (dependencies,    *)
(* then lotteryDrawHandler) and the 2.5 s timer settle in either order;     *)
(* the handler continues from `await Promise.race` and, after the timer won, *)
(* from `await lotteryPromise`.                                             *)

MsgAccepted == "EventAcceptedProcessing"        \* '事件已接收，正在处理中'
MsgServerError == "InternalServerError"         \* '服务器内部错误'
SetupError == "SetupError"

\* what lotteryDrawHandler can resolve to (its code -1 answer is resolved like
\* the others)
IngressResults ==
    { lotteryDrawHandler(res) :
        res \in { Ok([winnerId |-> u, participantCount |-> n]) : u \in Users, n \in 1..2 }
                \cup { Err(m) : m \in {MsgNotMentioned, MsgNotTrigger, MsgPermissionDenied,
                                       MsgNoParticipants, MsgAllWinnersExhausted,
                                       MsgNotifyFailed} } }

\* res.status(200).json(body)
Respond(status, body) == [status |-> status, body |-> body]

AckResponse == Respond(200, [code |-> 0, message |-> MsgAccepted])

ErrorResponse(error) == Respond(500, [code |-> -1, message |-> MsgServerError, error |-> error])

\* lotteryPromise: pending, resolved (with call.result) or rejected (an
\* exception of createStorage or initLarkClient, rethrown by the catch);
\* listeners: who has subscribed to its settlement;
\* race: what Promise.race settled with; handler: where the handler is
IngressStart ==
    [lottery |-> "pending", timer |-> "pending", race |-> "pending",
     listeners |-> {"race"}, handler |-> "race", responses |-> <<>>,
     unhandledRejection |-> FALSE]

InitIngress ==
    /\ call \in {[fn |-> "lottery-event", settles |-> how, result |-> body] :
                    how \in {"resolved", "rejected"}, body \in IngressResults}
    /\ ret = [done |-> FALSE, out |-> IngressStart]
    /\ PipelineIdle

\* the responses after the handler continued from the race
respondAfterRace(responses, race, lotteryResult) ==
    IF race = "timeout" THEN Append(responses, AckResponse)
    ELSE IF race = "rejected" THEN Append(responses, ErrorResponse(SetupError))
    ELSE Append(responses, Respond(200, lotteryResult))

\* the responses after the delayed lotteryPromise settled
respondAfterDelayAgain(responses, lottery, lotteryResult) ==
    IF lottery = "resolved" THEN Append(responses, Respond(200, lotteryResult)) ELSE responses

respondAfterDelay(responses, lottery, lotteryResult) == responses

\* lotteryPromise settles; the race settles with it when the timer has not fired
LotterySettles ==
    /\ call.fn = "lottery-event"
    /\ ret.out.lottery = "pending"
    /\ ret' = [ret EXCEPT
           !.out.lottery = call.settles,
           !.out.race = IF @ = "pending"
                        THEN (IF call.settles = "resolved" THEN "result" ELSE "rejected")
                        ELSE @,
           !.out.unhandledRejection = call.settles = "rejected" /\ ret.out.listeners = {}]
    /\ UNCHANGED <<call, pipelineVars>>

\* the timer fires after 2.5 s: resolve({timeout: true})
TimerFires ==
    /\ call.fn = "lottery-event"
    /\ ret.out.timer = "pending"
    /\ ret' = [ret EXCEPT !.out.timer = "fired",
                          !.out.race = IF @ = "pending" THEN "timeout" ELSE @]
    /\ UNCHANGED <<call, pipelineVars>>

\* the handler continues from `await Promise.race(...)`
HandlerAfterRace ==
    /\ call.fn = "lottery-event"
    /\ ret.out.handler = "race"
    /\ ret.out.race # "pending"
    /\ ret' = [ret EXCEPT
           !.out.responses = respondAfterRace(@, ret.out.race, call.result),
           !.out.handler = IF ret.out.race = "timeout" THEN "await" ELSE "returned",
           !.out.listeners = IF ret.out.race = "timeout" THEN @ \cup {"await"} ELSE @,
           !.done = ret.out.race # "timeout"]
    /\ UNCHANGED <<call, pipelineVars>>

\* the handler continues from `await lotteryPromise` inside its try/catch
HandlerAfterDelay ==
    /\ call.fn = "lottery-event"
    /\ ret.out.handler = "await"
    /\ ret.out.lottery # "pending"
    /\ ret' = [ret EXCEPT
           !.out.responses = respondAfterDelay(@, ret.out.lottery, call.result),
           !.out.handler = "returned",
           !.done = TRUE]
    /\ UNCHANGED <<call, pipelineVars>>

NextIngress == LotterySettles \/ TimerFires \/ HandlerAfterRace \/ HandlerAfterDelay

SpecIngress == InitIngress /\ [][NextIngress]_vars

\* every step is taken eventually: promises settle, timers fire, the handler runs on
SpecIngressLive ==
    /\ SpecIngress
    /\ WF_vars(LotterySettles) /\ WF_vars(TimerFires)
    /\ WF_vars(HandlerAfterRace) /\ WF_vars(HandlerAfterDelay)

-----------------------------------------------------------------------------
(* Specification SpecGate: the gate on every combination of mention,         *)
(* content, root id and sender, up to the history lookup                     *)

NextGate ==
    \E r \in Runs :
        \/ TriggerOn(r, "gate")
        \/ ResolveRootSender(r)
        \/ PermissionNotice(r)
        \/ HistoryLookup(r)

InitGate ==
    /\ call = NoCall
    /\ ret = NoRet
    /\ PipelineIdle

SpecGate == InitGate /\ [][NextGate]_vars

\* the steps of run r
RunNext(r) ==
    \/ Trigger(r)
    \/ ResolveRootSender(r)
    \/ PermissionNotice(r)
    \/ HistoryLookup(r)
    \/ GetParticipantsLike(r, PipelineReactionFeeds)
    \/ GetParticipantsRange(r, PipelineMessageFeeds)
    \/ DrawWinner(r)
    \/ NotifyWinner(r)
    \/ RecordLottery(r)

\* Specification SpecLive: every call a run awaits returns or fails, so a run
\* that can take a step eventually takes one
SpecLive == Spec /\ \A r \in Runs : WF_vars(RunNext(r))

-----------------------------------------------------------------------------
(* Specifications SpecLike and SpecRange: the publisher's draw request on    *)
(* thread om_A has passed the gate and the history lookup; getParticipants   *)
(* runs on a listing of up to MaxItems items, which call.items holds         *)

InitCollect(text, type, Listings) ==
    /\ call \in {[fn |-> "getParticipants", items |-> items] : items \in Listings}
    /\ ret = NoRet
    /\ store = EmptyStore("neon")
    /\ hist = NoHist
    /\ pc = [r \in Runs |-> IF r = 1 THEN "collect" ELSE "idle"]
    /\ params = [r \in Runs |->
                   IF r = 1
                   THEN MessageEvent(1, <<BotMention>>, text, "om_A", "u1",
                                     CHOOSE c \in TriggerCreateTimes : TRUE)
                   ELSE NoParams]
    /\ ctx = [r \in Runs |->
                   IF r = 1
                   THEN [EmptyCtx EXCEPT !.chatId = ChatId,
                            !.messageContent = [json |-> TRUE, text |-> text],
                            !.rootMessageId = "om_A", !.messageId = TriggerId(1),
                            !.senderId = "u1", !.tenantKey = TenantKey,
                            !.text = trimText(stripMentions(text)), !.lotteryType = type,
                            !.rootSenderId = "u1", !.historySeenAt = 0]
                   ELSE EmptyCtx]
    /\ acc = [r \in Runs |-> EmptyAccumulators]
    /\ feed = [r \in Runs |-> NoFeed]
    /\ result = [r \in Runs |-> NoResult]
    /\ trace = [r \in Runs |-> IF r = 1 THEN <<"Normalize", "Gate", "History">> ELSE <<>>]
    /\ replies = [r \in Runs |-> <<>>]

InitLike == InitCollect(TextLike, "like", AllReactionListings)

SpecLike == InitLike /\ [][GetParticipantsLike(1, Feeds(call.items))]_vars

InitRange == InitCollect(TextRange, "range", AllMessageListings("om_A", TriggerId(1)))

SpecRange == InitRange /\ [][GetParticipantsRange(1, Feeds(call.items))]_vars

-----------------------------------------------------------------------------
(* Specification SpecDraw: one run from the history lookup to the draw, in   *)
(* like mode, over every listing of reactions and a thread with one or two   *)
(* earlier draws (a lookup that fails gives the run an empty history)        *)

DrawHistories == { <<"u2">>, <<"u1", "u2">> }

InitDraw ==
    /\ call \in {[fn |-> "drawWinner", items |-> items] : items \in AllReactionListings}
    /\ ret = NoRet
    /\ \E winners \in DrawHistories :
        /\ store = ReplayDraws(EmptyStore("neon"), winners)
        /\ hist = [NoHist EXCEPT !.finished["om_A"] = Range(winners),
                                 !.prior[1] = Range(winners)]
    /\ pc = [r \in Runs |-> IF r = 1 THEN "history" ELSE "idle"]
    /\ params = [r \in Runs |->
                   IF r = 1
                   THEN MessageEvent(1, <<BotMention>>, TextLike, "om_A", "u1",
                                     CHOOSE c \in TriggerCreateTimes : TRUE)
                   ELSE NoParams]
    /\ ctx = [r \in Runs |->
                   IF r = 1
                   THEN [EmptyCtx EXCEPT !.chatId = ChatId,
                            !.messageContent = [json |-> TRUE, text |-> TextLike],
                            !.rootMessageId = "om_A", !.messageId = TriggerId(1),
                            !.senderId = "u1", !.tenantKey = TenantKey,
                            !.text = trimText(stripMentions(TextLike)),
                            !.lotteryType = "like", !.rootSenderId = "u1"]
                   ELSE EmptyCtx]
    /\ acc = [r \in Runs |-> EmptyAccumulators]
    /\ feed = [r \in Runs |-> NoFeed]
    /\ result = [r \in Runs |-> NoResult]
    /\ trace = [r \in Runs |-> IF r = 1 THEN <<"Normalize", "Gate">> ELSE <<>>]
    /\ replies = [r \in Runs |-> <<>>]

NextDraw ==
    \/ HistoryLookup(1)
    \/ GetParticipantsLike(1, Feeds(call.items))
    \/ DrawWinner(1)

SpecDraw == InitDraw /\ [][NextDraw]_vars

-----------------------------------------------------------------------------
(* Specification SpecSeconds: the range bounds computed from every root      *)
(* create_time of up to MaxDigits digits (milliseconds, leading zeros        *)
(* included) and a trigger create_time before, at or after it                *)

Digits == 0..9

CreateTimeStrings == {d \in SeqsUpTo(Digits, MaxDigits) : Len(d) >= 1}

TriggerTimeStrings == { <<0>>, <<9, 9, 9>>, <<1, 0, 0, 0>>, <<5, 0, 0, 0>>, <<9, 9, 9, 9>> }

InitSeconds ==
    /\ call \in {[fn |-> "rangeBounds", rootCreateTime |-> a, currentMessageTime |-> b] :
                    a \in CreateTimeStrings, b \in TriggerTimeStrings}
    /\ ret = NoRet
    /\ PipelineIdle

ApplyRangeBounds ==
    /\ call.fn = "rangeBounds"
    /\ ~ret.done
    /\ ret' = [done |-> TRUE,
               out |-> rangeBounds(call.rootCreateTime, call.currentMessageTime)]
    /\ UNCHANGED <<call, pipelineVars>>

SpecSeconds == InitSeconds /\ [][ApplyRangeBounds]_vars

-----------------------------------------------------------------------------
(* Specification SpecSelect: selectWinner applied to every pair of lists    *)

InitSelect ==
    /\ call \in {[fn |-> "selectWinner", participants |-> P, historyWinners |-> H] :
                    P \in SeqsUpTo(Users, MaxListLen), H \in SeqsUpTo(Users, MaxListLen)}
    /\ ret = NoRet
    /\ PipelineIdle

ApplySelectWinner ==
    /\ call.fn = "selectWinner"
    /\ ~ret.done
    /\ \E rnd \in 0..(RandomGrain - 1) :
          ret' = [done |-> TRUE,
                  out |-> selectWinner(call.participants, call.historyWinners, rnd)]
    /\ UNCHANGED <<call, pipelineVars>>

SpecSelect == InitSelect /\ [][ApplySelectWinner]_vars

-----------------------------------------------------------------------------
(* Specification SpecRetry: retryAsync around an operation whose k-th call  *)
(* returns AttemptValue(k) or throws AttemptError(k), as call.outcomes says *)

AttemptValue(k) == [attempt |-> k]
AttemptError(k) == <<"e1", "e2", "e3", "e4", "e5", "e6">>[k]

RetryDelays == {DefaultRetryDelay, 2 * DefaultRetryDelay}

InitRetry ==
    /\ \E m \in 1..MaxRetriesArg, d \in RetryDelays :
         \E o \in [1..m -> {"ok", "fail"}] :
            call = [fn |-> "retryAsync", maxRetries |-> m, retryDelay |-> d, outcomes |-> o]
    /\ ret = [done |-> FALSE, out |-> RetryStart]
    /\ PipelineIdle

\* retryAsync calls fn once more and handles what it did
RetryInvoke ==
    /\ call.fn = "retryAsync"
    /\ ret.out.st = "calling"
    /\ LET k == ret.out.calls + 1
           res == IF call.outcomes[k] = "ok" THEN Ok(AttemptValue(k))
                                             ELSE Err(AttemptError(k))
           rs == retryAsyncStep(ret.out, res, call.maxRetries, call.retryDelay)
       IN  ret' = [done |-> rs.st # "calling", out |-> rs]
    /\ UNCHANGED <<call, pipelineVars>>

SpecRetry == InitRetry /\ [][RetryInvoke]_vars

-----------------------------------------------------------------------------
(* Specification SpecTrigger: the gate's checks before the root message is   *)
(* fetched, on a message that mentions the bot and whose text is any         *)
(* sequence of up to MaxTextLen tokens                                       *)

MaxTextLen == 4

\* '快', '了' and the words of the keywords, a mention and a blank
TextTokens == {"kaijiang", "choujiang", "qujian", "kuai", "le", "@_user_1", Blank}

InitTrigger ==
    /\ call \in {[fn |-> "isLotteryTrigger", text |-> text] :
                    text \in SeqsUpTo(TextTokens, MaxTextLen)}
    /\ ret = NoRet
    /\ PipelineIdle

\* validateMessageContent, lines 700-731
ApplyIsLotteryTrigger ==
    /\ call.fn = "isLotteryTrigger"
    /\ ~ret.done
    /\ LET p == MessageEvent(1, <<BotMention>>, call.text, "om_A", "u1",
                             CHOOSE c \in TriggerCreateTimes : TRUE)
           messageInfo == validateAndExtractMessage(p).value
           parsedContent == parseMessageContent(messageInfo.messageContent).value
       IN  ret' = [done |-> TRUE,
                   out |-> [text |-> parsedContent.text,
                            triggerResult |-> isLotteryTrigger(parsedContent.text),
                            gate |-> gateChecks(messageInfo, p)]]
    /\ UNCHANGED <<call, pipelineVars>>

SpecTrigger == InitTrigger /\ [][ApplyIsLotteryTrigger]_vars

-----------------------------------------------------------------------------
(* Specification SpecClean: the cleaning of parseMessageContent,             *)
(* text.replace(/@_\w+\s*/g, '').trim(), on texts of up to MaxChars         *)
(* characters: '@', '_', a letter, a blank and a character that is neither   *)
(* a word character nor whitespace (a CJK character)                         *)

MaxChars == 5

TextChars == {"@", "_", "a", Blank, "k"}

\* \w
WordChars == {"a", "_"}

RECURSIVE dropWordChars(_)
dropWordChars(s) ==
    IF s # <<>> /\ Head(s) \in WordChars THEN dropWordChars(Tail(s)) ELSE s

\* /@_\w+/ matches at the head of s
mentionAtHead(s) == Len(s) >= 3 /\ s[1] = "@" /\ s[2] = "_" /\ s[3] \in WordChars

\* the text contains a match of /@_\w+/
hasMention(s) == \E i \in 1..Len(s) : mentionAtHead(SubSeq(s, i, Len(s)))

\* text.replace(/@_\w+\s*/g, ''): the matches are found from left to right in
\* the text as it was, each as long as possible
RECURSIVE replaceMentions(_)
replaceMentions(s) ==
    IF s = <<>> THEN <<>>
    ELSE IF mentionAtHead(s)
    THEN replaceMentions(dropBlanks(dropWordChars(SubSeq(s, 3, Len(s)))))
    ELSE <<Head(s)>> \o replaceMentions(Tail(s))

cleanTextTrimOne(s) ==
    LET t == replaceMentions(s) IN
    IF t # <<>> /\ Head(t) = Blank THEN Tail(t) ELSE t

cleanText(s) == trimText(replaceMentions(s))

InitClean ==
    /\ call \in {[fn |-> "cleanText", text |-> text] : text \in SeqsUpTo(TextChars, MaxChars)}
    /\ ret = NoRet
    /\ PipelineIdle

\* the cleaning applied to the text, and applied again to what it returned
ApplyCleanText ==
    /\ call.fn = "cleanText"
    /\ ~ret.done
    /\ ret' = [done |-> TRUE,
               out |-> [once |-> cleanText(call.text),
                        twice |-> cleanText(cleanText(call.text))]]
    /\ UNCHANGED <<call, pipelineVars>>

SpecClean == InitClean /\ [][ApplyCleanText]_vars

-----------------------------------------------------------------------------
(* Specification SpecNormalize: validateAndExtractMessage applied to one   *)
(* event wrapped in each of the two payload shapes                          *)

\* what the three locations of the tenant key can hold (NoId: absent)
TenantKeyAt == [top : {NoId, "t_top"}, header : {NoId, "t_header"},
                eventHeader : {NoId, "t_event_header"}]

\* a message event before it is wrapped: its message, its sender (absent, or
\* present with or without an open_id) and the tenant key locations
LogicalEvents ==
    [content : {NoContent, [json |-> TRUE, text |-> TextLike]},
     root_id : {NoId, "om_A"},
     sender : {[present |-> FALSE, open_id |-> NoId], [present |-> TRUE, open_id |-> NoId],
               [present |-> TRUE, open_id |-> "u1"]},
     tenant : TenantKeyAt]

\* {event: {message, sender}} for "new", {event: {event: {message, sender}}}
\* for "old"
envelope(e, shape) ==
    [NoParams EXCEPT !.kind = "message", !.shape = shape,
                     !.hasSender = e.sender.present, !.sender = e.sender.open_id,
                     !.mentions = <<BotMention>>, !.content = e.content,
                     !.root_id = e.root_id, !.message_id = TriggerId(1),
                     !.chat_id = ChatId, !.tenantKey = e.tenant.top,
                     !.header_tenant_key = e.tenant.header,
                     !.event_header_tenant_key = e.tenant.eventHeader]

InitNormalize ==
    /\ call \in {[fn |-> "validateAndExtractMessage", event |-> e] : e \in LogicalEvents}
    /\ ret = NoRet
    /\ PipelineIdle

ApplyValidateAndExtractMessage ==
    /\ call.fn = "validateAndExtractMessage"
    /\ ~ret.done
    /\ ret' = [done |-> TRUE,
               out |-> [new |-> validateAndExtractMessage(envelope(call.event, "new")),
                        old |-> validateAndExtractMessage(envelope(call.event, "old"))]]
    /\ UNCHANGED <<call, pipelineVars>>

SpecNormalize == InitNormalize /\ [][ApplyValidateAndExtractMessage]_vars

-----------------------------------------------------------------------------
(* Claims about selectWinner and retryAsync *)

SelectDone == call.fn = "selectWinner" /\ ret.done

\* C1 (as stated): selectWinner(P, H) returns a winner that is in P and not in H,
\* or reports AllWinnersExhausted; it reports exhaustion iff P is a subset of H.
C1_WinnerOrExhaustedForAllLists ==
    SelectDone =>
        LET P == call.participants
            H == call.historyWinners
            res == ret.out
        IN  /\ \/ isOk(res) /\ includes(P, res.value.winnerId)
                            /\ ~includes(H, res.value.winnerId)
               \/ isErr(res) /\ res.error = MsgAllWinnersExhausted
            /\ (isErr(res) /\ res.error = MsgAllWinnersExhausted) <=> (Range(P) \subseteq Range(H))

\* C1 (amended): for a non-empty P the result is a winner in P and not in H, or
\* AllWinnersExhausted, and it is exhaustion iff P is a subset of H; for the empty
\* P the result is the NoParticipants error.
C1_WinnerOrExhausted ==
    SelectDone =>
        LET P == call.participants
            H == call.historyWinners
            res == ret.out
        IN  IF Len(P) = 0
            THEN isErr(res) /\ res.error = MsgNoParticipants
            ELSE /\ \/ isOk(res) /\ includes(P, res.value.winnerId)
                                 /\ ~includes(H, res.value.winnerId)
                    \/ isErr(res) /\ res.error = MsgAllWinnersExhausted
                 /\ (isErr(res) /\ res.error = MsgAllWinnersExhausted)
                        <=> (Range(P) \subseteq Range(H))

\* C1 witness: a winner was returned although some participant is a past winner
C1_Witness ==
    /\ SelectDone
    /\ isOk(ret.out)
    /\ Range(call.participants) \cap Range(call.historyWinners) # {}

RetryDone == call.fn = "retryAsync" /\ ret.done

FirstOk(o) == IF \E k \in DOMAIN o : o[k] = "ok"
              THEN CHOOSE k \in DOMAIN o : o[k] = "ok" /\ \A j \in 1..(k - 1) : o[j] = "fail"
              ELSE 0

\* C5: retryAsync returns the result of the first successful attempt (fail, fail,
\* ok under the default policy yields the third attempt's value); when every one of
\* the maxRetries attempts fails it throws the error of the last attempt.
C5_FirstSuccessOrLastError ==
    RetryDone =>
        LET k == FirstOk(call.outcomes) IN
        IF k > 0
        THEN ret.out.st = "returned" /\ ret.out.value = AttemptValue(k)
        ELSE ret.out.st = "thrown" /\ ret.out.lastError = AttemptError(call.maxRetries)

\* C5 witness: default policy, two failures, then the third attempt's value returned
C5_Witness ==
    /\ RetryDone
    /\ call.maxRetries = DefaultMaxRetries /\ call.retryDelay = DefaultRetryDelay
    /\ call.outcomes = <<"fail", "fail", "ok">>
    /\ ret.out.st = "returned" /\ ret.out.value = AttemptValue(3)

-----------------------------------------------------------------------------
(* Reading a listing: what one pass over it counts, and what the attempts    *)
(* of a plan take through the loop body                                      *)

Count(items, Test(_)) == Len(SelectSeq(items, Test))

RECURSIVE ItemsProcessed(_, _)
ItemsProcessed(pages, plan) ==
    IF plan = <<>> THEN <<>>
    ELSE Flatten(SubSeq(pages, 1, Head(plan))) \o ItemsProcessed(pages, Tail(plan))

UserOperated(reaction) == reaction.operator_type = "user"

UserWithId(reaction) == reaction.operator_type = "user" /\ reaction.operator_id # NoId

Collected(r) == acc[r].collectResult = "ok"

FirstAttemptRead(r) == Collected(r) /\ Len(feed[r].plan) = 1

\* C6 (as claimed): a collection that succeeds, on the first attempt or on a
\* later one, counts every reaction of the listing exactly once, and collects
\* only users seen in the listing.
C6_EveryReactionCountedOnce ==
    Collected(1) =>
        /\ acc[1].reactionCount = Len(call.items)
        /\ Range(acc[1].userIdSet) \subseteq {call.items[i].operator_id : i \in 1..Len(call.items)}

\* C7 (as claimed): a listing read on the first attempt gives as statisticCount
\* the number of reaction events whose operator type is 'user'.
C7_StatisticCountsUserReactions ==
    FirstAttemptRead(1) => acc[1].reactionCount = Count(call.items, UserOperated)

\* C7: in reaction mode the participants are the duplicate-free list of the
\* non-empty operator ids of the reactions whose operator type is 'user', and
\* statisticCount is the number of reaction events, of any operator type, that
\* went through the loop body: every event of the listing when it is read on the
\* first attempt.
C7_ReactionModeCounts ==
    Collected(1) =>
        /\ NoDup(acc[1].userIdSet)
        /\ Range(acc[1].userIdSet) =
              {call.items[i].operator_id : i \in {j \in 1..Len(call.items) : UserWithId(call.items[j])}}
        /\ acc[1].reactionCount = Len(ItemsProcessed(feed[1].pages, feed[1].plan))
        /\ FirstAttemptRead(1) => acc[1].reactionCount = Len(call.items)
        /\ pc[1] = "select" =>
              /\ ctx[1].participants = acc[1].userIdSet
              /\ ctx[1].statisticCount = acc[1].reactionCount
        /\ pc[1] = "done" => acc[1].userIdSet = <<>> /\ result[1].res = Err(MsgNoParticipants)

\* C7 witness: five reaction events by three distinct users, read on the first
\* attempt, give three participants and a statisticCount of five.
C7_Witness ==
    /\ pc[1] = "select"
    /\ FirstAttemptRead(1)
    /\ Len(call.items) = 5
    /\ \A i \in 1..5 : UserWithId(call.items[i])
    /\ Cardinality({call.items[i].operator_id : i \in 1..5}) = 3
    /\ Len(ctx[1].participants) = 3
    /\ ctx[1].statisticCount = 5

-----------------------------------------------------------------------------
NotRootOrTrigger(message) ==
    message.message_id # ctx[1].rootMessageId /\ message.message_id # ctx[1].messageId

\* neither the root, nor the trigger, nor a reply
Counted(message) == NotRootOrTrigger(message) /\ message.root_id = NoId

\* the claim's qualifying message
Qualifying(message) ==
    /\ Counted(message)
    /\ message.sender.present /\ message.sender.sender_type = "user"
    /\ message.sender.id # NoId /\ ~message.deleted

SendersOf(items, Test(_)) == {items[i].sender.id : i \in {j \in 1..Len(items) : Test(items[j])}}

C9_RootTriggerRepliesContributeNobody ==
    acc[1].collectResult # "pending" =>
        Range(acc[1].userIdSet) \subseteq SendersOf(call.items, Counted)

\* C9 witness: a window of two pages holding the root message, the trigger, a
\* reply by u2 and a message of u3 is collected, and neither the publisher u1
\* nor u2 is among the participants.
C9_Witness ==
    /\ Collected(1)
    /\ Len(feed[1].pages) = 2
    /\ \E i, j, k \in 1..Len(call.items) :
        /\ call.items[i].message_id = ctx[1].rootMessageId
        /\ call.items[j].message_id = ctx[1].messageId
        /\ NotRootOrTrigger(call.items[k]) /\ call.items[k].root_id # NoId
        /\ call.items[k].sender.id = "u2"
    /\ acc[1].userIdSet = <<"u3">>

-----------------------------------------------------------------------------
(* Runs of the pipeline *)

Succeeded(r) == pc[r] = "done" /\ isOk(result[r].res)

ThreadOf(r) == ctx[r].rootMessageId

WinnerOf(r) == result[r].res.value.winnerId

WinnerCards(r) == SelectSeq(replies[r], LAMBDA card : card.kind = "winner")

RecordOf(r) ==
    drawRecord(ctx[r].winnerId, ctx[r].participantCount, ctx[r].chatId, ctx[r].senderId,
               ctx[r].lotteryMessageId, ctx[r].tenantKey)

\* C2 (as claimed): whatever the store, the winner of a successful draw has won
\* none of the draws completed on its thread before its event arrived.
C2_NoRepeatWinnerAnyStore ==
    \A r \in Runs : Succeeded(r) => WinnerOf(r) \notin hist.prior[r]

\* C2: on a store that answers the query by thread, the winner of a successful
\* draw has won none of the draws completed on its thread before its event
\* arrived, provided that the records of those draws were written and that the
\* draw's own history lookup did not fail.
C2_NoRepeatWinner ==
    \A r \in Runs :
        ( /\ Succeeded(r)
          /\ store.kind = "neon"
          /\ ~hist.lookupFailed[r]
          /\ hist.prior[r] \cap hist.unrecorded[ThreadOf(r)] = {} )
        => WinnerOf(r) \notin hist.prior[r]

\* C2 witness: run 2 draws on the thread of run 1 after run 1 has completed; the
\* winner of run 1 takes part again, is the history run 2 reads, and run 2 has
\* another winner.
C2_Witness ==
    /\ store.kind = "neon"
    /\ Succeeded(1) /\ Succeeded(2)
    /\ ThreadOf(1) = ThreadOf(2)
    /\ hist.prior[2] = {WinnerOf(1)}
    /\ ctx[2].historyWinners = <<WinnerOf(1)>>
    /\ includes(ctx[2].participants, WinnerOf(1))
    /\ WinnerOf(2) # WinnerOf(1)

Denied(r) == ctx[r].rootSenderId # NoId /\ ctx[r].rootSenderId # ctx[r].senderId

\* C3: once the fetched sender of the root message differs from the sender of
\* the trigger, the run can only send the notice and return PermissionDenied:
\* it has entered no stage after the gate, collected nothing, announced no
\* winner and written no record.
C3_PermissionDeniedStops ==
    \A r \in Runs :
        Denied(r) =>
            /\ pc[r] \in {"notice", "done"}
            /\ pc[r] = "done" =>
                  /\ result[r].res = Err(MsgPermissionDenied)
                  /\ lotteryDrawHandler(result[r].res).message = MsgPermissionDenied
            /\ trace[r] = <<"Normalize", "Gate">>
            /\ acc[r] = EmptyAccumulators /\ feed[r] = NoFeed
            /\ ctx[r].winnerId = NoId
            /\ WinnerCards(r) = <<>>
            /\ \A i \in 1..Len(store.rows) : store.rows[i].sender_id # ctx[r].senderId
            /\ \A t \in Threads :
                  store.kv[t] # <<>> => store.kv[t][1].senderId # ctx[r].senderId

\* C3 witness: the request of u2 on the thread of u1 has returned
\* PermissionDenied, and the notice is the only reply to it.
C3_Witness ==
    \E r \in Runs :
        /\ pc[r] = "done"
        /\ ctx[r].senderId = "u2" /\ ctx[r].rootSenderId = "u1"
        /\ result[r].res = Err(MsgPermissionDenied)
        /\ replies[r] = <<sendReplyMessage(TriggerId(r), PermissionDeniedCard)>>

SameHistoryRead(r, q) ==
    /\ r # q
    /\ Succeeded(r) /\ Succeeded(q)
    /\ ThreadOf(r) = ThreadOf(q)
    /\ ctx[r].historySeenAt = ctx[q].historySeenAt
    /\ ~hist.lookupFailed[r] /\ ~hist.lookupFailed[q]
    /\ result[r].failed = NoFailure /\ result[q].failed = NoFailure

\* C4: two runs on one thread that read the history at the same state of the
\* store, before either wrote, are both carried through: they read the same
\* history, each announces its winner, and each writes its record (a store
\* that inserts holds both rows).
C4_ConcurrentRunsBothRecord ==
    \A r, q \in Runs :
        SameHistoryRead(r, q) =>
            /\ ctx[r].historyWinners = ctx[q].historyWinners
            /\ Len(WinnerCards(r)) = 1 /\ WinnerCards(r)[1].mention = WinnerOf(r)
            /\ Len(WinnerCards(q)) = 1 /\ WinnerCards(q)[1].mention = WinnerOf(q)
            /\ store.writes >= ctx[r].historySeenAt + 2
            /\ store.kind = "neon" =>
                  \E i, j \in 1..Len(store.rows) :
                      /\ i # j
                      /\ store.rows[i] = drawRow(ThreadOf(r), RecordOf(r))
                      /\ store.rows[j] = drawRow(ThreadOf(q), RecordOf(q))

\* C4 witness: runs 1 and 2 on one thread have read the same history before
\* either wrote, have announced the same user as winner, and the store holds
\* the records of both.
C4_Witness ==
    /\ SameHistoryRead(1, 2)
    /\ store.kind = "neon"
    /\ WinnerOf(1) = WinnerOf(2)
    /\ Len(WinnerCards(1)) = 1 /\ Len(WinnerCards(2)) = 1
    /\ Len(getDrawsByRootMessageId(store, ThreadOf(1))) = 2

StageOrder == <<"Normalize", "Gate", "History", "Collect", "Select", "Notify", "Record">>

IsPrefix(s, t) == Len(s) <= Len(t) /\ SubSeq(t, 1, Len(s)) = s

StageErrors(stage) ==
    CASE stage = "Normalize" -> {MsgMissingParams, MsgInvalidEvent}
      [] stage = "Gate" -> {MsgNotMentioned, MsgParseFailed, MsgNotTrigger, MsgNoRootId,
                            MsgNoRootMessage, MsgNoRootSender, MsgRootInfoFailed,
                            MsgPermissionDenied}
      [] stage = "Collect" -> {MsgNoCreateTime, MsgCreateTimeFailed, MsgLikeFailed,
                               MsgRangeFailed, MsgNoParticipants}
      [] stage = "Select" -> {MsgNoParticipants, MsgAllWinnersExhausted}
      [] stage = "Notify" -> {MsgNotifyFailed}
      [] OTHER -> {}

\* C10 (as claimed): the error of whichever stage fails is the message of the
\* result.
C10_AnyFailureIsTheResult ==
    \A r \in Runs :
        (pc[r] = "done" /\ result[r].failed.stage # "none") =>
            /\ isErr(result[r].res)
            /\ lotteryDrawHandler(result[r].res).message = result[r].failed.error

\* C10: a run enters the stages in the order Normalize, Gate, History, Collect,
\* Select, Notify, Record, each at most once.  A failure of a stage up to
\* Notify ends the run at that stage, and that stage's error message is the
\* message of the result; a failure of Record ends the run too, but the result
\* is the success of the draw ('抽奖成功'), as it is when no stage fails.
C10_StagesInOrder ==
    \A r \in Runs :
        /\ IsPrefix(trace[r], StageOrder)
        /\ pc[r] # "done" => ~result[r].returned
        /\ pc[r] = "done" =>
            LET failed == result[r].failed
                response == lotteryDrawHandler(result[r].res)
            IN  /\ result[r].returned
                /\ failed.stage \in {"none", "Record"} =>
                      /\ trace[r] = StageOrder
                      /\ isOk(result[r].res)
                      /\ response.message = MsgSuccess
                      /\ response.data = [winnerId |-> ctx[r].winnerId,
                                          participantCount |-> ctx[r].participantCount]
                /\ failed.stage \notin {"none", "Record"} =>
                      /\ trace[r] # <<>> /\ trace[r][Len(trace[r])] = failed.stage
                      /\ failed.error \in StageErrors(failed.stage)
                      /\ result[r].res = Err(failed.error)
                      /\ response = [code |-> 0, message |-> failed.error,
                                     hasData |-> FALSE, data |-> NoValue]

\* C10 witness: a run whose selection finds every participant in the history
\* has ended at Select with that error, without announcement.
C10_Witness ==
    \E r \in Runs :
        /\ pc[r] = "done"
        /\ result[r].failed = [stage |-> "Select", error |-> MsgAllWinnersExhausted]
        /\ trace[r] = <<"Normalize", "Gate", "History", "Collect", "Select">>
        /\ lotteryDrawHandler(result[r].res).message = MsgAllWinnersExhausted
        /\ replies[r] = <<>>

-----------------------------------------------------------------------------
(* The announcement and the record *)

\* the record of run r is written only by the Recorder, which the run enters
\* once the Notifier has returned Ok
EnteredRecorder(r) == "Record" \in Range(trace[r])

AnnouncementFailed(r) == "Notify" \in Range(trace[r]) /\ WinnerCards(r) = <<>>

\* C11: a run whose announcement could not be sent on any attempt ends with the
\* failure MsgNotifyFailed and a response without data, although its winner is
\* selected, and it never enters the Recorder, so it writes no record
C11_NotifyFailureEndsRun ==
    \A r \in Runs :
        AnnouncementFailed(r) =>
            /\ pc[r] = "done"
            /\ result[r].res = Err(MsgNotifyFailed)
            /\ result[r].failed = [stage |-> "Notify", error |-> MsgNotifyFailed]
            /\ lotteryDrawHandler(result[r].res) =
                   [code |-> 0, message |-> MsgNotifyFailed, hasData |-> FALSE, data |-> NoValue]
            /\ ctx[r].winnerId \in Range(ctx[r].participants)
            /\ ~EnteredRecorder(r)
            /\ ctx[r].lotteryMessageId = NoId

C11_Witness ==
    \E r \in Runs :
        /\ AnnouncementFailed(r)
        /\ pc[r] = "done"
        /\ ctx[r].winnerId # NoId
        /\ store.writes = 0
        /\ \A q \in Runs : pc[q] \in {"idle", "done"}

RecordWriteFailed(r) == pc[r] = "done" /\ result[r].failed.stage = "Record"

\* C12: when the Recorder's store write fails after the announcement went out,
\* the response is still the success response (code 0, MsgSuccess) and its data
\* are the winner and the participant count that the announcement card shows
C12_RecordFailureStillSuccess ==
    \A r \in Runs :
        RecordWriteFailed(r) =>
            /\ Len(WinnerCards(r)) = 1
            /\ isOk(result[r].res)
            /\ lotteryDrawHandler(result[r].res) =
                   [code |-> 0, message |-> MsgSuccess, hasData |-> TRUE,
                    data |-> [winnerId |-> WinnerCards(r)[1].mention,
                              participantCount |-> WinnerCards(r)[1].info[1].value]]
            /\ WinnerCards(r)[1].mention \in Range(ctx[r].participants)

C12_Witness ==
    \E r \in Runs :
        /\ RecordWriteFailed(r)
        /\ store.writes = 0
        /\ lotteryDrawHandler(result[r].res).data =
               [winnerId |-> "u2", participantCount |-> 2]

-----------------------------------------------------------------------------
(* History Lookup *)

EnteredStage(r, stage) == stage \in Range(trace[r])

\* C13: a run whose history lookup failed holds an empty history, has gone on
\* to the collection, never ends at the History stage, and when it reaches the
\* selection it selects one of its participants (it is never exhausted)
C13_LookupFailureIsEmptyHistory ==
    \A r \in Runs :
        hist.lookupFailed[r] =>
            /\ ctx[r].historyWinners = <<>>
            /\ EnteredStage(r, "History")
            /\ pc[r] \in {"collect", "select", "notify", "record", "done"}
            /\ pc[r] = "done" =>
                   /\ EnteredStage(r, "Collect")
                   /\ result[r].failed.stage \in {"none", "Collect", "Notify", "Record"}
            /\ EnteredStage(r, "Select") =>
                   /\ ctx[r].winnerId \in Range(ctx[r].participants)
                   /\ result[r].res # Err(MsgAllWinnersExhausted)

\* the lookup failed on a thread with two recorded draws, and a winner of one
\* of them has won again
C13_Witness ==
    \E r \in Runs :
        /\ hist.lookupFailed[r]
        /\ store.kind = "neon"
        /\ Len(getDrawsByRootMessageId(store, ThreadOf(r))) >= 2
        /\ Succeeded(r)
        /\ WinnerOf(r) \in hist.prior[r]

-----------------------------------------------------------------------------
(* Collection failures *)

CollectorFailed(r) == acc[r].collectResult = "err"

CreateTimeLookupFailed(r) ==
    /\ pc[r] = "done"
    /\ result[r].failed.stage = "Collect"
    /\ result[r].failed.error \in {MsgCreateTimeFailed, MsgNoCreateTime}

CollectionError(r) ==
    IF CreateTimeLookupFailed(r) THEN result[r].failed.error
    ELSE IF ctx[r].lotteryType = "like" THEN MsgLikeFailed ELSE MsgRangeFailed

\* C14: a run whose collector's listing failed on every attempt, or whose root
\* create-time lookup failed, is done with the collection error; the users
\* gathered before the failure are not its participants, it has selected
\* nobody, sent no announcement and never entered a later stage
C14_CollectionFailureEndsRun ==
    \A r \in Runs :
        (CollectorFailed(r) \/ CreateTimeLookupFailed(r)) =>
            /\ pc[r] = "done"
            /\ result[r].res = Err(CollectionError(r))
            /\ lotteryDrawHandler(result[r].res).hasData = FALSE
            /\ ctx[r].participants = <<>>
            /\ ctx[r].winnerId = NoId
            /\ replies[r] = <<>>
            /\ trace[r] = <<"Normalize", "Gate", "History", "Collect">>

\* users were gathered from the pages read before the failure
C14_Witness ==
    \E r \in Runs :
        /\ CollectorFailed(r)
        /\ Len(acc[r].userIdSet) >= 2
        /\ pc[r] = "done"
        /\ ctx[r].participants = <<>>
        /\ \E q \in Runs : CreateTimeLookupFailed(q)

-----------------------------------------------------------------------------
(* The response of lotteryDrawHandler *)

Finished(r) == pc[r] \in {"done", "crashed"}

ExceptionEscaped(r) == pc[r] = "crashed"

Response(r) == lotteryDrawHandler(result[r].res)

\* the draw succeeded: a winner was selected and announced
DrawSucceeded(r) == ctx[r].winnerId # NoId /\ Len(WinnerCards(r)) = 1

Rejections ==
    {MsgMissingParams, MsgInvalidEvent, MsgNotMentioned, MsgParseFailed, MsgNotTrigger,
     MsgNoRootId, MsgNoRootMessage, MsgNoRootSender, MsgRootInfoFailed,
     MsgPermissionDenied, MsgNoCreateTime, MsgCreateTimeFailed, MsgLikeFailed,
     MsgRangeFailed, MsgNoParticipants, MsgAllWinnersExhausted, MsgNotifyFailed}

\* C15: the response has code -1 exactly when an exception escaped the pipeline
\* and code 0 otherwise; a rejection is answered with code 0 and its message,
\* and the response carries data, the winner's id and the participant count,
\* exactly when the draw succeeded
C15_ResponseCodes ==
    \A r \in Runs :
        Finished(r) =>
            /\ Response(r).code \in {0, -1}
            /\ Response(r).code = -1 <=> ExceptionEscaped(r)
            /\ Response(r).hasData <=> DrawSucceeded(r)
            /\ Response(r).hasData =>
                   /\ Response(r).message = MsgSuccess
                   /\ Response(r).data = [winnerId |-> WinnerCards(r)[1].mention,
                                          participantCount |-> ctx[r].participantCount]
            /\ (~ExceptionEscaped(r) /\ isErr(result[r].res)) =>
                   /\ Response(r).code = 0
                   /\ Response(r).message \in Rejections

\* one run ended by an exception, another by a success
C15_Witness ==
    \E r, q \in Runs :
        /\ ExceptionEscaped(r) /\ Response(r).code = -1 /\ ~Response(r).hasData
        /\ Succeeded(q) /\ Response(q).code = 0 /\ Response(q).hasData

\* C16 (as claimed): whatever the payload, no run ends by an exception: every
\* finished run has returned a Result, and the response has code 0
C16_NoPayloadThrows ==
    \A r \in Runs :
        Finished(r) => (result[r].returned /\ Response(r).code = 0)

-----------------------------------------------------------------------------
(* A later draw on a thread whose participants have all won before *)

\* the winners of the draws that were completed and recorded on the thread of
\* run r before its event arrived
RecordedPrior(r) == hist.prior[r] \ hist.unrecorded[ThreadOf(r)]

AllWonBefore(r) ==
    /\ EnteredStage(r, "Select")
    /\ Range(ctx[r].participants) \subseteq RecordedPrior(r)

ExhaustedWithoutEffect(r) ==
    /\ pc[r] = "done"
    /\ result[r].res = Err(MsgAllWinnersExhausted)
    /\ Response(r) = [code |-> 0, message |-> MsgAllWinnersExhausted,
                      hasData |-> FALSE, data |-> NoValue]
    /\ WinnerCards(r) = <<>>
    /\ ~EnteredStage(r, "Notify") /\ ~EnteredRecorder(r)

\* C17 (as claimed): a draw all of whose participants won a recorded earlier
\* draw on its thread reports AllWinnersExhausted, announces nothing and
\* records nothing.
C17_LaterDrawExhaustedAlways ==
    \A r \in Runs : AllWonBefore(r) => ExhaustedWithoutEffect(r)

\* C17: the same, provided the history lookup of the later draw did not fail and
\* the store answers the by-thread query or held, at the lookup, the one record
\* written so far; and whatever the store, a draw all of whose participants are
\* in the history it read is exhausted.
C17_LaterDrawExhausted ==
    \A r \in Runs :
        /\ ( /\ AllWonBefore(r)
             /\ ~hist.lookupFailed[r]
             /\ store.kind = "neon" \/ ctx[r].historySeenAt = 1 )
              => ExhaustedWithoutEffect(r)
        /\ ( /\ EnteredStage(r, "Select")
             /\ Range(ctx[r].participants) \subseteq Range(ctx[r].historyWinners) )
              => ExhaustedWithoutEffect(r)

\* the second of two draws in sequence on one thread, whose only participant
\* won the first
C17_Witness ==
    /\ store.writes = 1
    /\ Succeeded(1) /\ result[1].failed = NoFailure
    /\ ThreadOf(2) = ThreadOf(1)
    /\ hist.prior[2] = {WinnerOf(1)}
    /\ ctx[2].participants = <<WinnerOf(1)>>
    /\ ExhaustedWithoutEffect(2)

-----------------------------------------------------------------------------
(* The records in the store *)

RecordsOn(st, t) ==
    IF st.kind = "neon" THEN Len(getDrawsByRootMessageId(st, t)) ELSE Len(st.kv[t])

RecordsHeld(st) ==
    IF st.kind = "neon" THEN Len(st.rows)
    ELSE Cardinality({t \in Threads : st.kv[t] # <<>>})

RecordsOf(st, t) ==
    IF st.kind = "neon" THEN Range(getDrawsByRootMessageId(st, t)) ELSE Range(st.kv[t])

\* C18 (as claimed): no step removes or replaces a record that the store
\* holds, and every write adds a record to those of its thread.
C18_EveryRecordKept ==
    [][\A t \in Threads :
          /\ RecordsOf(store, t) \subseteq RecordsOf(store', t)
          /\ RecordsOn(store', t) - RecordsOn(store, t) \in {0, 1}
          /\ RecordsHeld(store') - RecordsHeld(store) = store'.writes - store.writes]_vars

\* the step of run r that writes its record: r is in the Recorder, its winner is
\* selected and announced, and the one record of r is added for its thread
WritesItsRecord(r) ==
    /\ pc[r] = "record" /\ pc'[r] = "done"
    /\ ctx[r].winnerId \in Range(ctx[r].participants)
    /\ Len(WinnerCards(r)) = 1
    /\ WinnerCards(r)[1].mention = ctx[r].winnerId
    /\ store'.writes = store.writes + 1
    /\ IF store.kind = "neon"
       THEN store'.rows = Append(store.rows, drawRow(ThreadOf(r), RecordOf(r)))
       ELSE store'.kv = [store.kv EXCEPT ![ThreadOf(r)] = <<RecordOf(r)>>]

RecordSteps ==
    /\ store' # store => \E r \in Runs : WritesItsRecord(r)
    /\ \A r \in Runs : Finished(r) => pc'[r] = pc[r]

\* C18: the store changes only by a run in the Recorder adding its one record,
\* after its winner was selected and announced, and a finished run takes no
\* further step; a store with the by-thread query holds one record per write,
\* a get/set store holds at most one record per thread, the last written
C18_OneRecordPerAnnouncedDraw ==
    /\ [](/\ store.kind = "neon" => RecordsHeld(store) = store.writes
          /\ store.kind = "kv" => \A t \in Threads : RecordsOn(store, t) <= 1)
    /\ [][RecordSteps]_vars

\* three records on one thread: two earlier draws and a run's
C18_Witness ==
    \E r \in Runs :
        /\ Succeeded(r) /\ result[r].failed = NoFailure
        /\ store.kind = "neon"
        /\ RecordsOn(store, ThreadOf(r)) = 3
        /\ store.writes = 3

-----------------------------------------------------------------------------
(* What the History Lookup returns *)

LookedUp(r) == ctx[r].historySeenAt >= 0 /\ ~hist.lookupFailed[r]

\* the winners of the rows that the thread of run r had when r looked its
\* history up, latest first (rows are only ever appended, one per write)
WinnersStoredAtLookup(r) ==
    LET seen == SubSeq(store.rows, 1, ctx[r].historySeenAt)
        mine == SelectSeq(seen, LAMBDA row : row.root_message_id = ThreadOf(r))
    IN  Reverse([i \in 1..Len(mine) |-> mine[i].winner_id])

\* C19: over the store with the by-thread query a lookup that worked returned
\* the winner of every record stored for the thread at the lookup, and nothing
\* when there was none; over the get/set store it returned at most one id, the
\* winner of the thread's stored record
C19_LookupReturnsStoredWinners ==
    \A r \in Runs :
        LookedUp(r) =>
            /\ store.kind = "neon" => ctx[r].historyWinners = WinnersStoredAtLookup(r)
            /\ store.kind = "kv" =>
                   /\ Len(ctx[r].historyWinners) <= 1
                   /\ store.writes = ctx[r].historySeenAt =>
                          ctx[r].historyWinners =
                              [i \in 1..Len(store.kv[ThreadOf(r)]) |->
                                  store.kv[ThreadOf(r)][i].winnerId]

\* a lookup returned three winners: those of two earlier draws and, first, the
\* winner of the other run, whose record was written before the lookup
C19_Witness ==
    \E r, q \in Runs :
        /\ LookedUp(r) /\ store.kind = "neon"
        /\ Succeeded(q) /\ result[q].failed = NoFailure
        /\ ctx[r].historyWinners = <<WinnerOf(q), "u2", "u1">>

-----------------------------------------------------------------------------
(* Trigger classification *)

TriggerDone == call.fn = "isLotteryTrigger" /\ ret.done

-----------------------------------------------------------------------------
(* Mention stripping *)

CleanDone == call.fn = "cleanText" /\ ret.done

\* C21: on a text without a mention placeholder the cleaning is idempotent:
\* cleaning what the cleaning returned returns it unchanged (and it is the text
\* without its leading and trailing blanks)
C21_CleanIdempotentWithoutMention ==
    (CleanDone /\ ~hasMention(call.text)) =>
        /\ ret.out.twice = ret.out.once
        /\ ret.out.once = trimText(call.text)

\* a text without a placeholder that the cleaning changes
C21_Witness ==
    /\ CleanDone
    /\ call.text = <<Blank, Blank, "k", "@", Blank>>
    /\ ret.out.once = <<"k", "@">>
    /\ ret.out.twice = <<"k", "@">>

-----------------------------------------------------------------------------
(* The notice of a denied request *)

DeniedDone(r) == Denied(r) /\ pc[r] = "done"

\* C22: a denied request ends with PermissionDenied (code 0, no exception)
\* whether or not its notice went out as a reply to the trigger message; the
\* notice is the only reply there can be
C22_NoticeIsBestEffort ==
    \A r \in Runs :
        /\ Denied(r) => pc[r] \in {"notice", "done"}
        /\ DeniedDone(r) =>
               /\ replies[r] \in {<<>>, <<sendReplyMessage(TriggerId(r), PermissionDeniedCard)>>}
               /\ result[r].returned
               /\ result[r].res = Err(MsgPermissionDenied)
               /\ Response(r) = [code |-> 0, message |-> MsgPermissionDenied,
                                 hasData |-> FALSE, data |-> NoValue]

\* two denied requests with the same result: the notice of one went out, that
\* of the other failed on every attempt
C22_Witness ==
    /\ DeniedDone(1) /\ DeniedDone(2)
    /\ replies[1] = <<sendReplyMessage(TriggerId(1), PermissionDeniedCard)>>
    /\ replies[2] = <<>>
    /\ result[1] = result[2]

-----------------------------------------------------------------------------
(* Silent rejections *)

TriggerPhrases ==
    {<<"kaijiang">>, <<"choujiang">>, <<"qujian", "kaijiang">>, <<"qujian", "choujiang">>}

\* the event of run r has been normalized and carries a message
Normalized(r) == pc[r] \notin {"idle", "crashed"} /\ params[r].kind = "message"

NotMentioned(r) ==
    \A i \in 1..Len(params[r].mentions) :
        params[r].mentions[i].key = NoId \/ params[r].mentions[i].id = NoId

NotExactTrigger(r) ==
    /\ params[r].content.json
    /\ trimText(stripMentions(params[r].content.text)) \notin TriggerPhrases

SilentlyRejected(r) == Normalized(r) /\ (NotMentioned(r) \/ NotExactTrigger(r))

\* nothing was asked of the chat client or the store for run r: no message was
\* fetched, no listing read, no reply sent, no history looked up
NoSideEffects(r) ==
    /\ ctx[r].rootSenderId = NoId
    /\ ctx[r].startTime = -1
    /\ feed[r] = NoFeed /\ acc[r] = EmptyAccumulators
    /\ replies[r] = <<>>
    /\ ctx[r].historySeenAt = -1 /\ ~hist.lookupFailed[r]
    /\ trace[r] = <<"Normalize", "Gate">>

\* the step that takes the event of run r: it ends r and touches neither the
\* store nor any reply
RejectingStep(r) ==
    (pc[r] = "idle" /\ SilentlyRejected(r)') =>
        (pc'[r] = "done" /\ store' = store /\ replies' = replies)

-----------------------------------------------------------------------------
(* The participant count *)

WinnerSelected(r) == EnteredStage(r, "Select") /\ ctx[r].winnerId # NoId

\* the distinct users collected for run r, historical winners included
Turnout(r) == Cardinality(Range(ctx[r].participants))

\* the record that the store holds for the thread of r after r's write
WrittenRecordCount(r) ==
    IF store'.kind = "neon"
    THEN store'.rows[Len(store'.rows)].participant_count
    ELSE store'.kv[ThreadOf(r)][1].participantCount

\* C24: the participant count of a run that selected a winner is the number of
\* distinct users collected, whatever the history; the card shows it, the
\* result data return it and the record written by the run stores it
C24_CountBeforeExclusion ==
    /\ [](\A r \in Runs :
              WinnerSelected(r) =>
                  /\ Turnout(r) = Len(acc[r].userIdSet)
                  /\ ctx[r].participantCount = Turnout(r)
                  /\ \A i \in 1..Len(WinnerCards(r)) :
                         WinnerCards(r)[i].info[1] =
                             [label |-> "Participants", value |-> Turnout(r)]
                  /\ Succeeded(r) => Response(r).data.participantCount = Turnout(r))
    /\ [][\A r \in Runs :
              (pc[r] = "record" /\ pc'[r] = "done" /\ store' # store) =>
                  WrittenRecordCount(r) = Turnout(r)]_vars

\* a recorded draw of two participants, one of them in the history that the
\* run read
C24_Witness ==
    \E r \in Runs :
        /\ Succeeded(r) /\ result[r].failed = NoFailure
        /\ Turnout(r) = 2
        /\ Range(ctx[r].historyWinners) \cap Range(ctx[r].participants) # {}
        /\ Response(r).data.participantCount = 2

-----------------------------------------------------------------------------
(* The default retry policy *)

DefaultPolicy ==
    /\ call.fn = "retryAsync"
    /\ call.maxRetries = DefaultMaxRetries
    /\ call.retryDelay = DefaultRetryDelay

\* the attempts that have failed so far
FailedAttempts == IF ret.out.st = "returned" THEN ret.out.calls - 1 ELSE ret.out.calls

\* C26: under the default policy the operation is invoked at most 3 times and
\* not again after a success; the k-th failure (k = 1, 2) is followed by a wait
\* of k * 1000 ms, the third by none: retryAsync throws
C26_DefaultPolicyBackoff ==
    /\ [](DefaultPolicy =>
              /\ ret.out.calls <= 3
              /\ \A k \in 1..ret.out.calls :
                     call.outcomes[k] = "ok" => k = ret.out.calls
              /\ ret.out.st = "returned" <=>
                     (ret.out.calls >= 1 /\ call.outcomes[ret.out.calls] = "ok")
              /\ ret.out.st = "thrown" <=> FailedAttempts = 3
              /\ ret.out.waits =
                     [k \in 1..(IF FailedAttempts < 3 THEN FailedAttempts ELSE 2) |-> k * 1000])
    /\ [][DefaultPolicy => (ret.out.st = "calling" /\ ret'.out.calls = ret.out.calls + 1)]_vars

\* three failures: waits of 1000 and 2000 ms, none after the third
C26_Witness ==
    /\ DefaultPolicy
    /\ ret.out.st = "thrown"
    /\ ret.out.calls = 3
    /\ ret.out.waits = <<1000, 2000>>

-----------------------------------------------------------------------------
(* Termination *)

Started(r) == pc[r] # "idle"

\* C25: every run that has started ends, by returning a result or by an
\* exception; it enters at most the seven stages, each once, a listing is
\* attempted at most 3 times and so is every other retried call
C25_EveryRunTerminates ==
    /\ \A r \in Runs : Started(r) ~> Finished(r)
    /\ [](\A r \in Runs :
              /\ Len(trace[r]) <= 7
              /\ Len(feed[r].plan) <= 3
              /\ (pc[r] = "done") = result[r].returned)
    /\ [](\A outcomes \in CallPlans : retryAsync(outcomes, NoValue).calls <= 3)

\* a run that ended after three failed attempts to read its listing, and one
\* that ended recorded
C25_Witness ==
    \E r, q \in Runs :
        /\ pc[r] = "done" /\ Len(feed[r].plan) = 3 /\ CollectorFailed(r)
        /\ Succeeded(q) /\ trace[q] = StageOrder

-----------------------------------------------------------------------------
(* A collection without participants *)

CollectedNobody(r) == acc[r].collectResult = "ok" /\ acc[r].userIdSet = <<>>

\* C27: a run whose collection succeeded without participants is done with
\* NoParticipants at the Collect stage: it never entered the selection, has no
\* winner, sent no reply and entered no Recorder
C27_NoParticipantsEndsRun ==
    \A r \in Runs :
        CollectedNobody(r) =>
            /\ pc[r] = "done"
            /\ result[r].res = Err(MsgNoParticipants)
            /\ result[r].failed = [stage |-> "Collect", error |-> MsgNoParticipants]
            /\ Response(r) = [code |-> 0, message |-> MsgNoParticipants,
                              hasData |-> FALSE, data |-> NoValue]
            /\ trace[r] = <<"Normalize", "Gate", "History", "Collect">>
            /\ ctx[r].winnerId = NoId /\ ctx[r].participants = <<>>
            /\ replies[r] = <<>>

\* both modes: a root message without reactions, a window without messages
C27_Witness ==
    \E r, q \in Runs :
        /\ CollectedNobody(r) /\ ctx[r].lotteryType = "like"
        /\ CollectedNobody(q) /\ ctx[q].lotteryType = "range"
        /\ pc[r] = "done" /\ pc[q] = "done"
        /\ store.writes = 0

-----------------------------------------------------------------------------
(* The two payload shapes *)

NormalizeDone == call.fn = "validateAndExtractMessage" /\ ret.done

WrappedOk(res) == ~isThrown(res) /\ res.success

FirstPresentTenantKey(t) ==
    IF t.top # NoId THEN t.top
    ELSE IF t.header # NoId THEN t.header
    ELSE IF t.eventHeader # NoId THEN t.eventHeader
    ELSE NoId

\* C28: an event wrapped in either payload shape is normalized, to the same
\* context (chatId, content, rootMessageId, messageId, senderId) in both, and
\* the context's tenant key is the first present of params.tenantKey,
\* params.header.tenant_key and params.event.header.tenant_key, else empty.
C28_SameContextEitherShape ==
    NormalizeDone =>
        /\ WrappedOk(ret.out.new)
        /\ WrappedOk(ret.out.old)
        /\ ret.out.new.value = ret.out.old.value
        /\ ret.out.new.value.tenantKey = FirstPresentTenantKey(call.event.tenant)

-----------------------------------------------------------------------------
(* The announcement *)

AnnouncementInfo(r) ==
    << [label |-> "Participants", value |-> ctx[r].participantCount] >>
    \o (IF ctx[r].lotteryType = "like"
        THEN << [label |-> "Reactions", value |-> ctx[r].statisticCount] >>
        ELSE << [label |-> "Messages", value |-> ctx[r].statisticCount],
                [label |-> "Time Range",
                 value |-> <<ctx[r].startTimeStr.minute, ctx[r].endTimeStr.minute>>] >>)

NotifyStep(r) == pc[r] = "notify" /\ pc'[r] # "notify"

-----------------------------------------------------------------------------
(* The in-memory fallback *)

\* C30: with no database configured, a request that looked the history up
\* after a draw on its thread had been recorded while handling an earlier request
\* finds a winner of such a draw in the history, and when it draws it does not
\* draw the one winner recorded before it.
C30_FallbackKeepsDrawsBetweenRequests ==
    \A r \in Runs :
        /\ (LookedUp(r) /\ RecordedPrior(r) # {})
               => Range(ctx[r].historyWinners) \cap RecordedPrior(r) # {}
        /\ (Succeeded(r) /\ ~hist.lookupFailed[r] /\ Cardinality(hist.prior[r]) = 1
                         /\ RecordedPrior(r) = hist.prior[r])
               => WinnerOf(r) \notin RecordedPrior(r)

-----------------------------------------------------------------------------
(* Duplicate draws in the legacy pipeline *)

\* a draw on the thread of request r had completed and been recorded when r
\* arrived, and r passed the checks of its content
LaterLegacyTrigger(r) ==
    /\ "Status" \in Range(trace[r])
    /\ RecordedPrior(r) # {}

\* C31: in the legacy pipeline a trigger that arrives after a draw on its root
\* message has completed and been recorded is rejected with AlreadyDrawn at
\* the status check: no participants are collected, no winner is selected and
\* nothing is announced.
C31_LegacyRejectsSecondDraw ==
    \A r \in Runs :
        LaterLegacyTrigger(r) =>
            /\ pc[r] = "done"
            /\ result[r].res = Err(MsgAlreadyDrawn)
            /\ ctx[r].winnerId = NoId
            /\ replies[r] = <<>>

-----------------------------------------------------------------------------
(* The responses of the request handler *)

PipelineFirst == ret.out.race = "result"

\* C32 (as claimed): the handler that has returned has sent exactly one
\* response, the pipeline's result when lotteryPromise settled before the
\* timer and the acknowledgement otherwise.
C32_ResultOrAcknowledgement ==
    (call.fn = "lottery-event" /\ ret.done) =>
        ret.out.responses = IF PipelineFirst THEN <<Respond(200, call.result)>>
                            ELSE <<AckResponse>>

\* C32: a request gets at most one response at any time and exactly one once
\* the handler has returned: the pipeline's result when lotteryPromise resolved
\* before the timer, the 500 response when it was rejected before the timer,
\* the acknowledgement when the timer fired first.  After the timer fired
\* first lotteryPromise still settles and the handler returns; its settlement
\* adds no response, and no rejection is left without a listener.
C32_OneResponsePerRequest ==
    /\ [](call.fn = "lottery-event" =>
              /\ Len(ret.out.responses) <= 1
              /\ ~ret.out.unhandledRejection
              /\ ret.out.handler = "await" => ret.out.responses = <<AckResponse>>
              /\ ret.done =>
                     ret.out.responses =
                         << CASE ret.out.race = "result" -> Respond(200, call.result)
                              [] ret.out.race = "rejected" -> ErrorResponse(SetupError)
                              [] ret.out.race = "timeout" -> AckResponse >>)
    /\ [][ret.out.handler = "await" => ret'.out.responses = ret.out.responses]_vars
    /\ (ret.out.race = "timeout") ~> (ret.done /\ ret.out.lottery # "pending")
    /\ <>ret.done

\* C32 witness: the timer fired first, the acknowledgement went out, the
\* pipeline then resolved with a winner, and the handler has returned.
C32_Witness ==
    /\ ret.done
    /\ ret.out.race = "timeout"
    /\ ret.out.lottery = "resolved"
    /\ call.result.hasData
    /\ ret.out.responses = <<AckResponse>>

-----------------------------------------------------------------------------
(* The order of the gate's checks *)

Unparsable(r) == ~params[r].content.json

NotATrigger(r) ==
    trimText(stripMentions(params[r].content.text)) \notin TriggerPhrases

\* the first check of the gate that the event of run r fails, in the order
\* mention, parse, trigger phrase, root id; "none" when it passes all four
FirstFailedCheck(r) ==
    IF NotMentioned(r) THEN MsgNotMentioned
    ELSE IF Unparsable(r) THEN MsgParseFailed
    ELSE IF NotATrigger(r) THEN MsgNotTrigger
    ELSE IF params[r].root_id = NoId THEN MsgNoRootId
    ELSE "none"

PermissionChecked(r) == ctx[r].rootSenderId # NoId

\* C33: a normalized event that fails one of the checks mention, parse,
\* trigger phrase, root id is rejected with the error of the first it fails in
\* that order, by the step that took it and before any call; the root message
\* is fetched and the permission checked only for events that pass all four;
\* and a run that entered the history lookup (or anything after it) has a
\* non-empty rootMessageId and a publisher equal to its sender.
C33_GateOrder ==
    \A r \in Runs :
        Normalized(r) =>
            /\ FirstFailedCheck(r) # "none" =>
                   /\ pc[r] = "done"
                   /\ result[r].res = Err(FirstFailedCheck(r))
                   /\ result[r].failed.stage = "Gate"
                   /\ NoSideEffects(r)
            /\ FirstFailedCheck(r) = "none" =>
                   /\ (pc[r] = "done" /\ ~EnteredStage(r, "History")) =>
                          result[r].res.error \in {MsgRootInfoFailed, MsgNoRootMessage,
                                                   MsgNoRootSender, MsgPermissionDenied}
                   /\ ctx[r].rootMessageId # NoId
            /\ (PermissionChecked(r) \/ pc[r] \in {"gate", "notice", "history"})
                   => FirstFailedCheck(r) = "none"
            /\ (EnteredStage(r, "History") \/ pc[r] \in {"history", "collect"}) =>
                   /\ ctx[r].rootMessageId # NoId
                   /\ ctx[r].rootSenderId = ctx[r].senderId

\* C33 witness: an unmentioned message with unparsable content was rejected as
\* NotMentioned, and a mentioned chat text outside any thread as NotTrigger.
C33_Witness ==
    \E r, q \in Runs :
        /\ Normalized(r) /\ NotMentioned(r) /\ Unparsable(r)
        /\ result[r].res = Err(MsgNotMentioned)
        /\ Normalized(q) /\ ~NotMentioned(q) /\ ~Unparsable(q) /\ NotATrigger(q)
        /\ params[q].root_id = NoId
        /\ result[q].res = Err(MsgNotTrigger)

-----------------------------------------------------------------------------
(* One winner in every output *)

Announced(r) == WinnerCards(r)[1]

\* the record a run must write, field by field from its trigger event, its
\* announcement and the id the reply answered with ('' when it answered without)
WrittenAs(r, written, replyId) ==
    /\ written.winner = Announced(r).mention
    /\ written.root = params[r].root_id
    /\ written.chat = params[r].chat_id
    /\ written.sender = params[r].sender
    /\ written.tenant = firstTruthy(<<params[r].tenantKey, params[r].header_tenant_key,
                                      params[r].event_header_tenant_key>>)
    /\ written.announcement = replyId

\* the record that the step has put into the store for thread t
NewRecord(t) ==
    IF store'.kind = "neon"
    THEN LET row == store'.rows[Len(store'.rows)] IN
         [winner |-> row.winner_id, root |-> row.root_message_id, chat |-> row.chat_id,
          sender |-> row.sender_id, tenant |-> row.tenant_key,
          announcement |-> row.lottery_message_id]
    ELSE LET value == store'.kv[t][1] IN
         [winner |-> value.winnerId, root |-> t, chat |-> value.chatId,
          sender |-> value.senderId, tenant |-> value.tenantKey,
          announcement |-> value.lotteryMessageId]

\* C34: a run never has more than one announcement; a successful run has
\* exactly one, and the user it mentions is the winnerId of the returned data;
\* and the step in which a run writes its record writes, under the root id of
\* its trigger event, that same user with the chatId, senderId and tenantKey
\* of the event and the message id the reply answered with.
C34_OneWinnerEverywhere ==
    /\ [](\A r \in Runs :
              /\ Len(WinnerCards(r)) <= 1
              /\ Succeeded(r) =>
                     /\ Len(WinnerCards(r)) = 1
                     /\ Announced(r).mention = WinnerOf(r)
                     /\ Announced(r).message_id = params[r].message_id
                     /\ WinnerOf(r) # NoId)
    /\ [][\A r \in Runs :
              (pc[r] = "record" /\ pc'[r] = "done" /\ store' # store) =>
                  /\ Len(WinnerCards(r)) = 1
                  /\ \E answer \in ReplyAnswers(r) :
                         WrittenAs(r, NewRecord(params[r].root_id), answer.message_id)
                  /\ Succeeded(r)' /\ WinnerOf(r)' = Announced(r).mention]_vars

\* C34 witness: a successful run whose record is in the store with the id of
\* its announcement.
C34_Witness ==
    \E r \in Runs :
        /\ Succeeded(r) /\ result[r].failed = NoFailure
        /\ store.kind = "neon"
        /\ \E i \in 1..Len(store.rows) :
               /\ store.rows[i].lottery_message_id = AnnounceId(r)
               /\ store.rows[i].winner_id = WinnerOf(r)
               /\ store.rows[i].sender_id = params[r].sender

-----------------------------------------------------------------------------
(* A root message whose sender cannot be resolved *)

RootErrors == {MsgRootInfoFailed, MsgNoRootMessage, MsgNoRootSender}

\* run r passed the gate's four checks, the fetch of its root message is over
\* and gave no sender
SenderUnresolved(r) ==
    /\ Normalized(r) /\ FirstFailedCheck(r) = "none"
    /\ pc[r] # "gate"
    /\ ctx[r].rootSenderId = NoId

\* C35: getRootMessageInfo fails with RootInfoFailed when the get call failed
\* on each of its 3 attempts, with NoRootMessage when it returned no message
\* and with NoRootSender when the message has no sender id; a run whose root
\* sender was not resolved is done with one of these errors at the Gate, not
\* with PermissionDenied, has sent no reply, and entered no later stage: no
\* history lookup, no collection, no winner, no record of its own.
C35_UnresolvedRootSenderEndsRun ==
    /\ [](\A r \in Runs :
              SenderUnresolved(r) =>
                  /\ pc[r] = "done"
                  /\ result[r].res.error \in RootErrors
                  /\ result[r].res = Err(result[r].failed.error)
                  /\ result[r].failed.stage = "Gate"
                  /\ replies[r] = <<>>
                  /\ trace[r] = <<"Normalize", "Gate">>
                  /\ ctx[r].historySeenAt = -1 /\ feed[r] = NoFeed
                  /\ ctx[r].winnerId = NoId)
    /\ [][\A r \in Runs : (pc[r] = "gate" /\ SenderUnresolved(r)') => store' = store]_vars
    /\ [](\A outcomes \in CallPlans :
              \A answer \in MessageGetAnswers("u1", 0) :
                  LET rs == retryAsync(outcomes, answer)
                      res == getRootMessageInfo(outcomes, answer)
                  IN  /\ rs.st = "thrown" => rs.calls = 3 /\ res = Err(MsgRootInfoFailed)
                      /\ (rs.st = "returned" /\ ~answer.hasMessage) => res = Err(MsgNoRootMessage)
                      /\ (rs.st = "returned" /\ answer.hasMessage /\ answer.senderId = NoId)
                             => res = Err(MsgNoRootSender))

\* C35 witness: one run ended because the get call failed every time, another
\* because the root message came without a sender id.
C35_Witness ==
    \E r, q \in Runs :
        /\ SenderUnresolved(r) /\ result[r].res = Err(MsgRootInfoFailed)
        /\ SenderUnresolved(q) /\ result[q].res = Err(MsgNoRootSender)

-----------------------------------------------------------------------------
(* Draws on different threads *)

\* what a History Lookup of thread t by request q would return from the store
HistoryOf(st, q, t) == getHistoryWinners(redisOf(st, q), t, TRUE)

\* the records held for thread t, in the order of the by-thread query
RecordListOf(st, t) ==
    IF st.kind = "neon" THEN getDrawsByRootMessageId(st, t) ELSE st.kv[t]

RecordsDraw(r) == pc[r] = "record" /\ pc'[r] = "done"

\* C36: the step in which a run records its draw for its root message leaves,
\* for every other root message, the history that a History Lookup returns and
\* the records held unchanged, whatever the other runs have done so far.
C36_ThreadsDoNotInterfere ==
    [][\A r \in Runs :
          RecordsDraw(r) =>
              \A b \in Threads \ {ThreadOf(r)} :
                  /\ \A q \in Runs : HistoryOf(store', q, b) = HistoryOf(store, q, b)
                  /\ RecordListOf(store', b) = RecordListOf(store, b)]_vars

\* C36 witness: two runs on different threads have both recorded their draws;
\* thread om_A holds its two earlier records and the run's, thread om_B its own
C36_Witness ==
    \E r, q \in Runs :
        /\ Succeeded(r) /\ result[r].failed = NoFailure /\ ThreadOf(r) = "om_A"
        /\ Succeeded(q) /\ result[q].failed = NoFailure /\ ThreadOf(q) = "om_B"
        /\ store.kind = "neon"
        /\ HistoryOf(store, r, "om_A") = <<WinnerOf(r), "u2", "u1">>
        /\ HistoryOf(store, r, "om_B") = <<WinnerOf(q)>>

-----------------------------------------------------------------------------
(* The pool from which the winner is picked *)

HasParticipants(r) == EnteredStage(r, "Collect") /\ ctx[r].participants # <<>>

\* availableParticipants of the run's selectWinner call
Pool(r) == availableParticipants(ctx[r].participants, ctx[r].historyWinners)

\* C37: the pool of a run that collected participants holds every participant
\* who is not a past winner exactly once, however often that user reacted or
\* posted; every random number gives a valid index of the pool; for every user
\* in the pool some random number makes selectWinner return that user; and the
\* winner of a run that selected one is a member of its pool.
C37_SingleDrawOverEligible ==
    \A r \in Runs :
        HasParticipants(r) =>
            /\ NoDup(ctx[r].participants) /\ NoDup(Pool(r))
            /\ Range(Pool(r)) = Range(ctx[r].participants) \ Range(ctx[r].historyWinners)
            /\ \A rnd \in 0..(RandomGrain - 1) :
                   Pool(r) # <<>> => randomIndex(rnd, Len(Pool(r))) \in 0..(Len(Pool(r)) - 1)
            /\ \A u \in Range(Pool(r)) :
                   \E rnd \in 0..(RandomGrain - 1) :
                       selectWinner(ctx[r].participants, ctx[r].historyWinners, rnd)
                           = Ok([winnerId |-> u,
                                 participantCount |-> Len(ctx[r].participants)])
            /\ EnteredStage(r, "Select") =>
                   IF Pool(r) = <<>>
                   THEN result[r].res = Err(MsgAllWinnersExhausted)
                   ELSE ctx[r].winnerId \in Range(Pool(r))

\* C37 witness: u1 reacted twice and u3 twice, the first page was read again
\* after a failed attempt, u2 won before: the pool is u1, u3 and u3 was drawn
C37_Witness ==
    /\ call.items = <<Reaction("user", "u1"), Reaction("user", "u3"), Reaction("user", "u2"),
                      Reaction("user", "u1"), Reaction("user", "u3")>>
    /\ feed[1].plan = <<1, 2>>
    /\ ctx[1].historyWinners = <<"u2">>
    /\ ctx[1].participants = <<"u1", "u3", "u2">>
    /\ Pool(1) = <<"u1", "u3">>
    /\ ctx[1].winnerId = "u3"

-----------------------------------------------------------------------------
(* The range bounds in seconds *)

SecondsDone == call.fn = "rangeBounds" /\ ret.done

\* C38: the start and end of the range listing are the root's and the trigger's
\* create_time in milliseconds divided by 1000 and rounded down; start is at
\* most end when the root was not created after the trigger, and the root's
\* create_time lies in the second that start names.
C38_RangeBoundsInSeconds ==
    SecondsDone =>
        LET rootCreateTimeMs == parseInt(call.rootCreateTime)
            triggerCreateTimeMs == parseInt(call.currentMessageTime)
            start == parseInt(ret.out.startTime)
            end == parseInt(ret.out.endTime)
        IN  /\ ret.out.startTime = toString(rootCreateTimeMs \div 1000)
            /\ ret.out.endTime = toString(triggerCreateTimeMs \div 1000)
            /\ rootCreateTimeMs <= triggerCreateTimeMs => start <= end
            /\ start * 1000 <= rootCreateTimeMs
            /\ rootCreateTimeMs < (start + 1) * 1000

\* C38 witness: a root created at 1999 ms and a trigger at 5000 ms give the
\* bounds 1 and 5
C38_Witness ==
    /\ SecondsDone
    /\ call.rootCreateTime = <<1, 9, 9, 9>> /\ call.currentMessageTime = <<5, 0, 0, 0>>
    /\ ret.out = [startTime |-> <<1>>, endTime |-> <<5>>]

====
